---- MODULE Spec2Model ----
(***************************************************************************)
(* Model of django_plotly_dash: the callback dispatcher                    *)
(* (WrappedDash.dispatch_with_args), the signature analyser                *)
(* (DjangoDash.get_expanded_arguments) and the tree walker                 *)
(* (WrappedDash.walk_tree_and_replace).                                    *)
(*                                                                         *)
(* Python str values are sequences of one-character strings, so that       *)
(* startswith / endswith / slicing / split are computed as the code        *)
(* computes them.  JSON values are tagged records.                         *)
(***************************************************************************)
EXTENDS Integers, Sequences, FiniteSets, TLC

VARIABLES
    callback_map,           \* WrappedDash.callback_map: output key -> registration
    backend,                \* the state backend behind argMap["dash_app"]
    dash_callback_context,  \* the module global dash.callback_context
    active,                 \* the request threads that serve dispatches
    pc,                     \* per thread: position inside dispatch_with_args
    body,                   \* per thread: the wire request
    argMap,                 \* per thread: the caller-supplied context map
    args,                   \* per thread: positional arguments built so far
    outputs,                \* per thread: the output targets split from body["output"]
    res,                    \* per thread: what the handler returned
    result,                 \* per thread: how dispatch_with_args ended
    calls,                  \* per thread: handler invocations (handler, args, kwargs, ret)
    log,                    \* per thread: backend writes and invocations, in order
    callback_sets,          \* per template: DjangoDash._callback_sets
    func_expanded,          \* per handler function: its attribute expanded (dash_wrapper.py)
    expanded_parameters,    \* the module global expanded_parameters (django_dash.py)
    analyses,               \* the calls of get_expanded_arguments made so far
    instance_of,            \* the template the instance was formed from
    registry_apps,          \* registry.apps: identifier -> template
    constructed,            \* the DjangoDash(...) calls made so far and how each ended
    sig, sig_inputs, sig_state, expanded_dd, expanded_dw,  \* signature analyser
    tree, overrides, tree_after, overrides_after, replaced,  \* tree walker
    target, extracted,      \* walk_tree_and_extract: its target dict, how the call ended
    _replacements,          \* WrappedDash._replacements of the instance
    initial_arguments,      \* the initial arguments of a layout request
    response_data,          \* what augment_initial_layout returned
    wid_a, wid_b,           \* two identifiers handed to wid2str
    str_a, str_b,           \* how wid2str ended on each
    _adjust_id,             \* WrappedDash._adjust_id of the instance
    layout,                 \* the layout held by the instance
    layout_given,           \* the layout as handed to the setter
    refs_given,             \* the callbacks as handed to WrappedDash.callback, in order
    template_layout,        \* DjangoDash.layout: the component tree of the template
    template_given,         \* the template's layout and callback sets as first declared
    instances               \* the instances formed from the template, in order

dispatch_vars == <<callback_map, backend, dash_callback_context, active, pc, body,
                   argMap, args, outputs, res, result, calls, log>>
reg_vars == <<callback_sets, func_expanded, expanded_parameters, analyses, instance_of,
             registry_apps, constructed>>
sig_vars == <<sig, sig_inputs, sig_state, expanded_dd, expanded_dw>>
walk_vars == <<tree, overrides, tree_after, overrides_after, replaced, target, extracted>>
layout_vars == <<_replacements, initial_arguments, response_data>>
wid_vars == <<wid_a, wid_b, str_a, str_b>>
ns_vars == <<_adjust_id, layout, layout_given, refs_given,
            template_layout, template_given, instances>>
vars == <<dispatch_vars, reg_vars, sig_vars, walk_vars, layout_vars, wid_vars, ns_vars>>

(***************************************************************************)
(* Python dict.get and JSON values                                         *)
(***************************************************************************)
Get(d, k, dflt) == IF k \in DOMAIN d THEN d[k] ELSE dflt

JNull == [t |-> "null"]
JBool(b) == [t |-> "bool", b |-> b]
JNum(n) == [t |-> "num", n |-> n]
JStr(s) == [t |-> "str", s |-> s]
JList(xs) == [t |-> "list", xs |-> xs]
JDict(kv) == [t |-> "dict", kv |-> kv]

(***************************************************************************)
(* Python str operations on character sequences                            *)
(***************************************************************************)
startswith(s, p) == Len(s) >= Len(p) /\ SubSeq(s, 1, Len(p)) = p
endswith(s, p) == Len(s) >= Len(p) /\ SubSeq(s, Len(s) - Len(p) + 1, Len(s)) = p

RECURSIVE split_from(_, _, _)
split_from(s, sep, cur) ==
    IF s = <<>> THEN <<cur>>
    ELSE IF startswith(s, sep)
         THEN <<cur>> \o split_from(SubSeq(s, Len(sep) + 1, Len(s)), sep, <<>>)
         ELSE split_from(Tail(s), sep, Append(cur, Head(s)))

\* str.split(sep)
split(s, sep) == split_from(s, sep, <<>>)

RECURSIVE join(_, _)
\* sep.join(parts)
join(parts, sep) ==
    IF parts = <<>> THEN <<>>
    ELSE IF Len(parts) = 1 THEN parts[1]
    ELSE parts[1] \o sep \o join(Tail(parts), sep)

Dot == <<".">>
DotDot == <<".", ".">>
DotDotDot == <<".", ".", ".">>

(***************************************************************************)
(* The state backend (interface: has / set), keyed by identifier and       *)
(* property.                                                               *)
(***************************************************************************)
have_current_state_entry(b, wid, key) == <<wid, key>> \in DOMAIN b

update_current_state(b, wid, key, value) ==
    [k \in DOMAIN b \cup {<<wid, key>>} |-> IF k = <<wid, key>> THEN value ELSE b[k]]

\* a run of calls that leaves the backend as it was
apply_writes_none(b, ws) == b

RECURSIVE apply_writes(_, _)
\* a run of update_current_state calls, first to last
apply_writes(b, ws) ==
    IF ws = <<>> THEN b
    ELSE apply_writes(update_current_state(b, ws[1].id, ws[1].property, ws[1].value), Tail(ws))

(***************************************************************************)
(* Requests                                                                *)
(***************************************************************************)
Threads == {"t1", "t2"}

MaxInputs == 2
MaxState == 1

K_single == <<"o", ".", "c">>
K_multi == <<".", ".", "o", ".", "c", ".", ".", ".", "p", ".", "v", ".", ".">>
K_pattern == <<"{", "\"", "i", "\"", ":", "0", "}", ".", "c">>
K_patdot == <<"{", "\"", "i", "\"", ":", "\"", "a", "\\", ".", "b", "\"", "}", ".", "c">>
K_absent == <<"n", ".", "v">>
OutputKeys == {K_single, K_multi, K_pattern, K_patdot, K_absent}

E_a == [id |-> <<"a">>, property |-> <<"v">>, value |-> JNum(5)]
E_b == [id |-> <<"b">>, property |-> <<"v">>, value |-> JNum(6)]
E_noid == [property |-> <<"v">>, value |-> JNum(7)]
E_novalue == [id |-> <<"a">>, property |-> <<"v">>]
One(d) == [kind |-> "one", d |-> d]
Group(ms) == [kind |-> "group", members |-> ms]
Entries == {One(E_a), Group(<<E_b, E_a>>), One(E_noid)}

SeqsUpTo(S, n) == UNION {[1..k -> S] : k \in 0..n}

Bodies ==
    {[output |-> o, inputs |-> i, state |-> s, changedPropIds |-> <<>>] :
        o \in OutputKeys, i \in SeqsUpTo(Entries, MaxInputs), s \in SeqsUpTo(Entries, MaxState)}
    \cup {[output |-> K_single, outputs |-> <<[id |-> <<"o">>, property |-> <<"c">>]>>,
           inputs |-> <<One(E_a)>>, state |-> <<>>, changedPropIds |-> <<<<"a", ".", "v">>>>]}
    \cup {[output |-> K_single, state |-> <<>>]}
    \cup {[inputs |-> <<One(E_a)>>, state |-> <<>>]}
    \cup {[output |-> K_single, inputs |-> <<One(E_novalue)>>, state |-> <<>>]}

DA == [obj |-> "dash_app"]
NoneObj == [obj |-> "None"]
User == [obj |-> "user"]
EmptyMap == [k \in {} |-> NoneObj]
ArgMaps ==
    {EmptyMap,
     [dash_app |-> DA, user |-> User],
     [dash_app |-> NoneObj, user |-> User],
     [dash_app |-> DA]}

BackendInits ==
    {EmptyMap,
     [k \in {<<<<"o">>, <<"c">>>>} |-> JNum(0)],
     [k \in {<<<<"o">>, <<"c">>>>, <<<<"p">>, <<"v">>>>} |-> JNum(0)],
     [k \in {<<<<"{", "\"", "i", "\"", ":", "0", "}">>, <<"c">>>>} |-> JNum(0)]}

(***************************************************************************)
(* The registration table of the instance                                  *)
(***************************************************************************)
None == [t |-> "None"]
List(xs) == [t |-> "list", xs |-> xs]
Range(xs) == {xs[i] : i \in DOMAIN xs}

Dep(i, p) == [id |-> i, property |-> p]
D_a == Dep(JStr(<<"a">>), <<"v">>)
D_b == Dep(JStr(<<"b">>), <<"v">>)
D_s == Dep(JStr(<<"s">>), <<"v">>)

RegisteredTable ==
    [k \in {K_single, K_multi, K_pattern, K_patdot} |->
        CASE k = K_single ->
                [inputs |-> <<D_a>>, state |-> <<>>,
                 callback |-> [name |-> "h_named", expanded |-> List(<<"user">>)]]
          [] k = K_multi ->
                [inputs |-> <<D_a, D_b>>, state |-> <<>>,
                 callback |-> [name |-> "h_all", expanded |-> None]]
          [] OTHER ->
                [inputs |-> <<D_a>>, state |-> <<>>,
                 callback |-> [name |-> "h_none", expanded |-> List(<<>>)]]]

(***************************************************************************)
(* Templates and the handlers registered on them.  "dw" is a DjangoDash of *)
(* dash_wrapper.py, "dd" a DjangoDash of django_dash.py.  h_twin is a      *)
(* second function whose __qualname__ is that of h_named.                  *)
(***************************************************************************)
Templates == {"dw", "dd"}
NoAttribute == [t |-> "no attribute"]
FuncObjects == {"h_named", "h_all", "h_none", "h_twin"}
qualname(f) == IF f = "h_twin" THEN "h_named" ELSE f

Single(d) == [multi |-> FALSE, deps |-> <<d>>]
Multi(ds) == [multi |-> TRUE, deps |-> ds]
CallbackSet(o, i, s) == [output |-> o, inputs |-> i, state |-> s, prevent_initial_call |-> FALSE]
Registration(cs, f) == [callback_set |-> cs, func |-> f]
Analysis(tpl, f, cs, e) ==
    [template |-> tpl, func |-> f, output |-> cs.output, inputs |-> cs.inputs,
     state |-> cs.state, expanded |-> e]

\* the template the instance of RegisteredTable is formed from
DeclaredAtStart ==
    <<Registration(CallbackSet(Single(Dep(JStr(<<"o">>), <<"c">>)), <<D_a>>, <<>>), "h_named"),
      Registration(CallbackSet(Multi(<<Dep(JStr(<<"o">>), <<"c">>), Dep(JStr(<<"p">>), <<"v">>)>>),
                               <<D_a, D_b>>, <<>>), "h_all"),
      Registration(CallbackSet(Single(Dep(JDict(<<[k |-> <<"i">>, v |-> JNum(0)]>>), <<"c">>)),
                               <<D_a>>, <<>>), "h_none"),
      Registration(CallbackSet(Single(Dep(JDict(<<[k |-> <<"i">>, v |-> JStr(<<"a", ".", "b">>)]>>),
                                          <<"c">>)),
                               <<D_a>>, <<>>), "h_none")>>

ExpandedAtStart ==
    [f \in FuncObjects |->
        CASE f = "h_named" -> List(<<"user">>)
          [] f = "h_all" -> None
          [] f = "h_none" -> List(<<>>)
          [] OTHER -> NoAttribute]

InstanceRegistered ==
    /\ callback_sets = [tpl \in Templates |-> IF tpl = "dw" THEN DeclaredAtStart ELSE <<>>]
    /\ func_expanded = ExpandedAtStart
    /\ expanded_parameters = [k \in {} |-> NoneObj]
    /\ analyses = [i \in DOMAIN DeclaredAtStart |->
                     Analysis("dw", DeclaredAtStart[i].func, DeclaredAtStart[i].callback_set,
                              ExpandedAtStart[DeclaredAtStart[i].func])]
    /\ instance_of = "dw"
    /\ registry_apps = EmptyMap
    /\ constructed = <<>>

(***************************************************************************)
(* dash._utils.split_callback_id, as called by dispatch_with_args          *)
(***************************************************************************)
RECURSIVE last_index(_, _)
last_index(s, c) ==
    IF s = <<>> THEN 0
    ELSE IF s[Len(s)] = c THEN Len(s) ELSE last_index(SubSeq(s, 1, Len(s) - 1), c)

split_one(cid) ==
    [id |-> SubSeq(cid, 1, last_index(cid, ".") - 1),
     property |-> SubSeq(cid, last_index(cid, ".") + 1, Len(cid))]

split_callback_id(cid) ==
    IF startswith(cid, DotDot)
    THEN LET parts == split(SubSeq(cid, 3, Len(cid) - 2), DotDotDot)
         IN  [i \in 1..Len(parts) |-> split_one(parts[i])]
    ELSE <<split_one(cid)>>

\* body.get("outputs") or split_callback_id(output)
outputs_list_of(b) ==
    IF "outputs" \in DOMAIN b /\ b.outputs # <<>> THEN b.outputs
    ELSE split_callback_id(b.output)

(***************************************************************************)
(* WrappedDash.dispatch_with_args, one action per block of the method      *)
(***************************************************************************)
SetItem(d, k, v) == [x \in DOMAIN d \cup {k} |-> IF x = k THEN v ELSE d[x]]

Return(v) == [kind |-> "return", val |-> v]
Raise(e) == [kind |-> "raise", exc |-> e]
NoResult == [kind |-> "none"]
EDGECASEEXIT == [str |-> "EDGECASEEXIT"]
Unset == [unset |-> TRUE]

WriteEv(w) == [ev |-> "write", id |-> w.id, property |-> w.property, value |-> w.value]
InvokeEv(h) == [ev |-> "invoke", name |-> h]

\* CallbackContext(**callback_context_info)
callback_context_of(b) ==
    [ctx |-> [inputs_list |-> Get(b, "inputs", <<>>),
              states_list |-> Get(b, "state", <<>>),
              outputs_list |-> outputs_list_of(b),
              triggered |-> Get(b, "changedPropIds", <<>>)]]

\* the request arrives: the view hands body and argMap to dispatch_with_args
Receive(t) ==
    /\ t \in active
    /\ pc[t] = "idle"
    /\ \E b \in Bodies, m \in ArgMaps :
          /\ body' = [body EXCEPT ![t] = b]
          /\ argMap' = [argMap EXCEPT ![t] = m]
    /\ pc' = [pc EXCEPT ![t] = "begin"]
    /\ UNCHANGED <<callback_map, backend, dash_callback_context, active, args, outputs,
                   res, result, calls, log,
                   reg_vars, sig_vars, walk_vars, layout_vars, wid_vars, ns_vars>>

entry_members(c) == IF c.kind = "group" THEN c.members ELSE <<c.d>>

RECURSIVE flatten(_)
flatten(cs) == IF cs = <<>> THEN <<>> ELSE entry_members(Head(cs)) \o flatten(Tail(cs))

\* the members whose ci["id"] / ci["property"] subscripts raise KeyError
bad_members(ms) ==
    {i \in 1..Len(ms) : "id" \notin DOMAIN ms[i] \/ "property" \notin DOMAIN ms[i]}

\* inputs_to_dict of lines 732 and 745 subscripts ii["id"] and ii["property"] of
\* every member of every entry; TRUE where one of the subscripts raises KeyError
inputs_to_dict_raises(cs) == bad_members(flatten(cs)) # {}

\* lines 731-758: parse the body, build the callback context, publish it
Begin(t) ==
    /\ pc[t] = "begin"
    /\ IF \/ inputs_to_dict_raises(Get(body[t], "inputs", <<>>))
          \/ "output" \notin DOMAIN body[t]
          \/ inputs_to_dict_raises(Get(body[t], "state", <<>>))
       THEN /\ result' = [result EXCEPT ![t] = Raise("KeyError")]
            /\ pc' = [pc EXCEPT ![t] = "done"]
            /\ UNCHANGED <<dash_callback_context, argMap>>
       ELSE /\ dash_callback_context' = callback_context_of(body[t])
            /\ argMap' = [argMap EXCEPT ![t] =
                            IF Cardinality(DOMAIN argMap[t]) > 0
                            THEN SetItem(argMap[t], "callback_context", callback_context_of(body[t]))
                            ELSE argMap[t]]
            /\ pc' = [pc EXCEPT ![t] = "lookup"]
            /\ UNCHANGED result
    /\ UNCHANGED <<callback_map, backend, active, body, args, outputs, res, calls, log,
                   reg_vars, sig_vars, walk_vars, layout_vars, wid_vars, ns_vars>>

\* lines 760-766
outputs_of(output) ==
    IF ~(startswith(output, DotDot) /\ endswith(output, DotDot))
    THEN <<output>>
    ELSE split(SubSeq(output, 3, Len(output) - 2), DotDotDot)

\* a lookup that falls back to a registration instead of raising
callback_info_default(cm, output) ==
    [found |-> TRUE, info |-> IF output \in DOMAIN cm THEN cm[output] ELSE cm[K_single]]

\* line 770: self.callback_map[output]; found is FALSE where the subscript raises KeyError
callback_info_of(cm, output) ==
    IF output \in DOMAIN cm
    THEN [found |-> TRUE, info |-> cm[output]]
    ELSE [found |-> FALSE]

\* lines 760-770: split the output key, look the registration up
Lookup(t) ==
    /\ pc[t] = "lookup"
    /\ outputs' = [outputs EXCEPT ![t] = outputs_of(body[t].output)]
    /\ IF ~callback_info_of(callback_map, body[t].output).found
       THEN /\ result' = [result EXCEPT ![t] = Raise("KeyError")]
            /\ pc' = [pc EXCEPT ![t] = "done"]
       ELSE /\ pc' = [pc EXCEPT ![t] = "args"]
            /\ UNCHANGED result
    /\ UNCHANGED <<callback_map, backend, dash_callback_context, active, body, argMap,
                   args, res, calls, log,
                   reg_vars, sig_vars, walk_vars, layout_vars, wid_vars, ns_vars>>

\* da = argMap.get("dash_app", None), and the truth value of "if da:"
da_of(m) == Get(m, "dash_app", NoneObj)
truthy(o) == o # NoneObj

\* a reading that takes the last member's value for a grouped entry
entry_value_last(c) ==
    IF c.kind = "group"
    THEN Get(c.members[Len(c.members)], "value", JNull)
    ELSE Get(c.d, "value", JNull)

\* v of lines 776 and 781
entry_value(c) ==
    IF c.kind = "group"
    THEN JList([i \in 1..Len(c.members) |-> Get(c.members[i], "value", JNull)])
    ELSE Get(c.d, "value", JNull)

Min(S) == CHOOSE x \in S : \A y \in S : x <= y

\* a loop that records the first member only
input_writes_first(ms) ==
    LET n == IF bad_members(ms) = {} THEN Len(ms) ELSE Min(bad_members(ms)) - 1
    IN  [i \in 1..(IF n > 1 THEN 1 ELSE n) |->
            [id |-> ms[i].id, property |-> ms[i].property,
             value |-> Get(ms[i], "value", JNull)]]

\* the update_current_state calls of lines 777-783, up to the first KeyError
input_writes(ms) ==
    LET n == IF bad_members(ms) = {} THEN Len(ms) ELSE Min(bad_members(ms)) - 1
    IN  [i \in 1..n |-> [id |-> ms[i].id, property |-> ms[i].property,
                         value |-> Get(ms[i], "value", JNull)]]

\* line 795
insufficient(a, callback_info) == Len(a) < Len(callback_info.inputs)

\* lines 772-796: build the positional arguments, record them, intercept the edge case
BuildArgs(t) ==
    /\ pc[t] = "args"
    /\ LET cs == Get(body[t], "inputs", <<>>) \o Get(body[t], "state", <<>>)
           ms == flatten(cs)
           da == da_of(argMap[t])
           ws == IF truthy(da) THEN input_writes(ms) ELSE <<>>
           a  == [i \in 1..Len(cs) |-> entry_value(cs[i])]
       IN  /\ backend' = apply_writes(backend, ws)
           /\ log' = [log EXCEPT ![t] = log[t] \o [i \in 1..Len(ws) |-> WriteEv(ws[i])]]
           /\ IF truthy(da) /\ bad_members(ms) # {}
              THEN /\ result' = [result EXCEPT ![t] = Raise("KeyError")]
                   /\ pc' = [pc EXCEPT ![t] = "done"]
                   /\ UNCHANGED <<args, argMap>>
              ELSE /\ args' = [args EXCEPT ![t] = a]
                   /\ argMap' = [argMap EXCEPT ![t] =
                         SetItem(argMap[t], "outputs_list", [ol |-> outputs_list_of(body[t])])]
                   /\ IF insufficient(a, callback_info_of(callback_map, body[t].output).info)
                      THEN /\ result' = [result EXCEPT ![t] = Return(EDGECASEEXIT)]
                           /\ pc' = [pc EXCEPT ![t] = "done"]
                      ELSE /\ pc' = [pc EXCEPT ![t] = "invoke"]
                           /\ UNCHANGED result
    /\ UNCHANGED <<callback_map, dash_callback_context, active, body, outputs, res, calls,
                   reg_vars, sig_vars, walk_vars, layout_vars, wid_vars, ns_vars>>

\* line 800: callback.expanded raises AttributeError when the attribute was never set
has_expanded(callback) == "expanded" \in DOMAIN callback

\* a call that passes the whole context map whatever the policy
injected_everything(callback, m) == m

\* lines 800-806: the keyword arguments the handler is called with
injected(callback, m) ==
    IF callback.expanded # None
    THEN LET parameters_to_inject == Range(callback.expanded.xs) \cup {"outputs_list"}
         IN  [k \in DOMAIN m \cap parameters_to_inject |-> m[k]]
    ELSE m

\* what a handler may return: a serialized payload with or without values
HandlerReturns(b) ==
    LET ol == outputs_list_of(b)
        ids == {o.id : o \in Range(ol)}
        full == [i \in ids |-> [p \in {o.property : o \in {x \in Range(ol) : x.id = i}} |-> JNum(10)]]
    IN  {[json |-> [response |-> full]],
         [json |-> [response |-> EmptyMap]],
         [json |-> [multi |-> TRUE]]}

\* lines 798-806: call the handler
Invoke(t) ==
    /\ pc[t] = "invoke"
    /\ LET callback == callback_info_of(callback_map, body[t].output).info.callback
       IN  IF ~has_expanded(callback)
           THEN /\ result' = [result EXCEPT ![t] = Raise("AttributeError")]
                /\ pc' = [pc EXCEPT ![t] = "done"]
                /\ UNCHANGED <<res, calls, log>>
           ELSE /\ \E r \in HandlerReturns(body[t]) :
                     /\ res' = [res EXCEPT ![t] = r]
                     /\ calls' = [calls EXCEPT ![t] =
                           Append(calls[t], [name |-> callback.name, args |-> args[t],
                                             policy |-> callback.expanded,
                                             kwargs |-> injected(callback, argMap[t]),
                                             seen_context |-> dash_callback_context,
                                             ret |-> r])]
                     /\ log' = [log EXCEPT ![t] = Append(log[t], InvokeEv(callback.name))]
                /\ pc' = [pc EXCEPT ![t] = "store"]
                /\ UNCHANGED result
    /\ UNCHANGED <<callback_map, backend, dash_callback_context, active, body, argMap,
                   args, outputs,
                   reg_vars, sig_vars, walk_vars, layout_vars, wid_vars, ns_vars>>

\* json.loads(res)
json_loads(r) == r.json

\* line 811: every element of outputs is a str (it is output or a piece of output.split)
isinstance_str(item) == TRUE

RECURSIVE store_outputs_unguarded(_, _, _)
\* a write-back that does not ask the backend whether it has the entry
store_outputs_unguarded(st, items, root_value) ==
    IF items = <<>> THEN st
    ELSE LET parts == split(Head(items), Dot)
         IN  IF Len(parts) # 2
             THEN [st EXCEPT !.exc = "ValueError"]
             ELSE LET w == [id |-> parts[1], property |-> parts[2],
                            value |-> Get(Get(root_value, parts[1], EmptyMap), parts[2], JNull)]
                  IN  store_outputs_unguarded(
                          [b |-> update_current_state(st.b, w.id, w.property, w.value),
                           writes |-> Append(st.writes, w),
                           exc |-> st.exc],
                          Tail(items), root_value)

RECURSIVE store_outputs(_, _, _)
\* lines 810-820: the loop over the output targets
store_outputs(st, items, root_value) ==
    IF items = <<>> THEN st
    ELSE LET output_item == Head(items)
         IN  IF isinstance_str(output_item)
             THEN LET parts == split(output_item, Dot)
                  IN  IF Len(parts) # 2
                      THEN [st EXCEPT !.exc = "ValueError"]
                      ELSE IF have_current_state_entry(st.b, parts[1], parts[2])
                           THEN LET w == [id |-> parts[1], property |-> parts[2],
                                          value |-> Get(Get(root_value, parts[1], EmptyMap),
                                                        parts[2], JNull)]
                                IN  store_outputs(
                                        [b |-> update_current_state(st.b, w.id, w.property, w.value),
                                         writes |-> Append(st.writes, w),
                                         exc |-> st.exc],
                                        Tail(items), root_value)
                           ELSE store_outputs(st, Tail(items), root_value)
             ELSE [st EXCEPT !.exc = "NotImplementedError"]

\* a dispatcher that returns the decoded payload
returned_decoded(r) == r.json

\* line 821
returned(r) == r

\* lines 808-821: write the outputs back, return the handler's result
Store(t) ==
    /\ pc[t] = "store"
    /\ LET da == da_of(argMap[t])
           st0 == [b |-> backend, writes |-> <<>>, exc |-> "none"]
           st == IF truthy(da)
                 THEN store_outputs(st0, outputs[t], Get(json_loads(res[t]), "response", EmptyMap))
                 ELSE st0
       IN  /\ backend' = st.b
           /\ log' = [log EXCEPT ![t] = log[t] \o [i \in 1..Len(st.writes) |-> WriteEv(st.writes[i])]]
           /\ result' = [result EXCEPT ![t] =
                            IF st.exc # "none" THEN Raise(st.exc) ELSE Return(returned(res[t]))]
    /\ pc' = [pc EXCEPT ![t] = "done"]
    /\ UNCHANGED <<callback_map, dash_callback_context, active, body, argMap, args,
                   outputs, res, calls,
                   reg_vars, sig_vars, walk_vars, layout_vars, wid_vars, ns_vars>>

IdleThreads ==
    /\ pc = [t \in Threads |-> "idle"]
    /\ body = [t \in Threads |-> EmptyMap]
    /\ argMap = [t \in Threads |-> EmptyMap]
    /\ args = [t \in Threads |-> <<>>]
    /\ outputs = [t \in Threads |-> <<>>]
    /\ res = [t \in Threads |-> Unset]
    /\ result = [t \in Threads |-> NoResult]
    /\ calls = [t \in Threads |-> <<>>]
    /\ log = [t \in Threads |-> <<>>]

NoSignature ==
    /\ sig = <<>>
    /\ sig_inputs = <<>>
    /\ sig_state = <<>>
    /\ expanded_dd = Unset
    /\ expanded_dw = Unset

NoTree ==
    /\ tree = JNull
    /\ overrides = EmptyMap
    /\ tree_after = JNull
    /\ overrides_after = EmptyMap
    /\ replaced = Unset
    /\ target = EmptyMap
    /\ extracted = Unset

NoNamespace ==
    /\ _adjust_id = FALSE
    /\ layout = Unset
    /\ layout_given = Unset
    /\ refs_given = <<>>
    /\ template_layout = Unset
    /\ template_given = Unset
    /\ instances = <<>>

NoLayout ==
    /\ _replacements = EmptyMap
    /\ initial_arguments = None
    /\ response_data = Unset
    /\ wid_a = JNull
    /\ wid_b = JNull
    /\ str_a = Unset
    /\ str_b = Unset

\* an instance with its registrations, one request thread, any backend content
Init ==
    /\ callback_map = RegisteredTable
    /\ backend \in BackendInits
    /\ dash_callback_context = Unset
    /\ active = {"t1"}
    /\ IdleThreads
    /\ InstanceRegistered
    /\ NoSignature
    /\ NoNamespace
    /\ NoTree
    /\ NoLayout

Next ==
    \/ \E t \in Threads : Receive(t)
    \/ \E t \in Threads : Begin(t)
    \/ \E t \in Threads : Lookup(t)
    \/ \E t \in Threads : BuildArgs(t)
    \/ \E t \in Threads : Invoke(t)
    \/ \E t \in Threads : Store(t)

Spec == Init /\ [][Next]_vars

(***************************************************************************)
(* Vocabulary of the dispatch properties                                   *)
(***************************************************************************)
Done(t) == pc[t] = "done"
RequestEntries(b) == Get(b, "inputs", <<>>) \o Get(b, "state", <<>>)
WellFormed(b) == "output" \in DOMAIN b /\ bad_members(flatten(RequestEntries(b))) = {}
Registered(b) == b.output \in DOMAIN callback_map
Declared(b) == Len(callback_map[b.output].inputs)
Attached(t) == "dash_app" \in DOMAIN argMap[t] /\ argMap[t].dash_app = DA
\* a target whose identifier is the canonical text of a key/value pattern
PatternShaped(item) == item # <<>> /\ Head(item) = "{"
Targets(b) == outputs_of(b.output)
Invoked(t) == Len(calls[t]) = 1
Policy(b) == callback_map[b.output].callback.expanded

\* C1 (as stated): a registered request with enough positional values invokes
\* the handler exactly once and returns exactly what the handler returned,
\* with or without a state backend attached.
C1_Original ==
    \A t \in Threads :
        (Done(t) /\ WellFormed(body[t]) /\ Registered(body[t])
            /\ Len(RequestEntries(body[t])) >= Declared(body[t]))
        => (Invoked(t) /\ result[t] = Return(calls[t][1].ret))

\* C1 (amended): the same, provided that with a backend attached every output
\* target splits on "." into exactly an identifier and a property.
C1_Amended ==
    \A t \in Threads :
        (Done(t) /\ WellFormed(body[t]) /\ Registered(body[t])
            /\ Len(RequestEntries(body[t])) >= Declared(body[t])
            /\ (Attached(t) =>
                   \A i \in DOMAIN Targets(body[t]) : Len(split(Targets(body[t])[i], Dot)) = 2))
        => (Invoked(t) /\ result[t] = Return(calls[t][1].ret))

C1_Witness ==
    \E t \in Threads :
        /\ Done(t) /\ Attached(t) /\ Get(body[t], "output", <<>>) = K_multi
        /\ Invoked(t) /\ result[t] = Return(calls[t][1].ret)
        /\ log[t][Len(log[t])].ev = "write"

\* C2 (as stated): a request whose inputs list is shorter than the declared
\* inputs gets the sentinel and the handler is not invoked, whatever the
\* length of its state list.
C2_Original ==
    \A t \in Threads :
        (Done(t) /\ WellFormed(body[t]) /\ Registered(body[t])
            /\ Len(Get(body[t], "inputs", <<>>)) < Declared(body[t]))
        => (result[t] = Return(EDGECASEEXIT) /\ calls[t] = <<>>)

\* C3: an output key absent from the registration table makes dispatch fail
\* with KeyError; no handler is invoked and nothing is written to the backend.
C3_NotFound ==
    \A t \in Threads :
        (Done(t) /\ "output" \in DOMAIN body[t] /\ ~Registered(body[t]))
        => (result[t] = Raise("KeyError") /\ calls[t] = <<>> /\ log[t] = <<>>)

C3_Witness ==
    \E t \in Threads :
        /\ Done(t) /\ Attached(t) /\ Get(body[t], "output", <<>>) = K_absent
        /\ Len(Get(body[t], "inputs", <<>>)) = MaxInputs
        /\ WellFormed(body[t])
        /\ result[t] = Raise("KeyError")

\* C4 (as stated): with a backend attached, a pattern-shaped output target
\* makes the write-back fail with NotImplementedError.
C4_Original ==
    \A t \in Threads :
        (Done(t) /\ Attached(t) /\ Invoked(t)
            /\ \E i \in DOMAIN Targets(body[t]) : PatternShaped(Targets(body[t])[i]))
        => result[t] = Raise("NotImplementedError")

\* C5 (as stated): after a successful dispatch with a backend attached and
\* plain targets, the backend holds the response's value for every output
\* target the response gives a value for, whether or not it had an entry.
C5_Original ==
    \A t \in Threads :
        (Done(t) /\ Attached(t) /\ Invoked(t) /\ result[t].kind = "return"
            /\ \A i \in DOMAIN Targets(body[t]) : ~PatternShaped(Targets(body[t])[i]))
        => LET root_value == Get(json_loads(res[t]), "response", EmptyMap)
           IN  \A o \in Range(split_callback_id(body[t].output)) :
                  (o.id \in DOMAIN root_value /\ o.property \in DOMAIN root_value[o.id])
                  => /\ <<o.id, o.property>> \in DOMAIN backend
                     /\ backend[<<o.id, o.property>>] = root_value[o.id][o.property]

\* C5 (amended): the write-back step sets, for every plain output target the
\* backend already has an entry for, the value the response gives (null when
\* it gives none); a target without an entry gets none.
C5_Amended ==
    [][\A t \in Threads :
          (pc[t] = "store" /\ pc'[t] = "done" /\ Attached(t)
              /\ \A i \in DOMAIN Targets(body[t]) : ~PatternShaped(Targets(body[t])[i]))
          => LET root_value == Get(json_loads(res[t]), "response", EmptyMap)
             IN  /\ result'[t] = Return(res[t])
                 /\ \A o \in Range(split_callback_id(body[t].output)) :
                       LET k == <<o.id, o.property>>
                       IN  IF k \in DOMAIN backend
                           THEN /\ k \in DOMAIN backend'
                                /\ backend'[k] =
                                      IF o.id \in DOMAIN root_value
                                            /\ o.property \in DOMAIN root_value[o.id]
                                      THEN root_value[o.id][o.property]
                                      ELSE JNull
                           ELSE k \notin DOMAIN backend']_vars

C5_Witness ==
    \E t \in Threads :
        /\ Done(t) /\ Attached(t) /\ Invoked(t) /\ body[t].output = K_multi
        /\ result[t] = Return(res[t])
        /\ <<<<"o">>, <<"c">>>> \in DOMAIN backend
        /\ backend[<<<<"o">>, <<"c">>>>] = JNum(10)
        /\ <<<<"p">>, <<"v">>>> \notin DOMAIN backend

\* C6 (as stated): with a policy that is a set of names, the keyword arguments
\* of the call are exactly the context entries named by the policy; with
\* "inject all" they are all the context entries.
C6_Original ==
    \A t \in Threads :
        Invoked(t)
        => LET kw == calls[t][1].kwargs
               pol == Policy(body[t])
           IN  /\ \A k \in DOMAIN kw : k \in DOMAIN argMap[t] /\ kw[k] = argMap[t][k]
               /\ \A k \in DOMAIN argMap[t] :
                     k \in DOMAIN kw <=> (pol = None \/ k \in Range(pol.xs))

\* C6 (amended): the keyword arguments are exactly the context entries named
\* by the policy together with the entry outputs_list, which is always passed;
\* with "inject all" they are all the context entries.
C6_Amended ==
    \A t \in Threads :
        Invoked(t)
        => LET kw == calls[t][1].kwargs
               pol == Policy(body[t])
           IN  /\ \A k \in DOMAIN kw : k \in DOMAIN argMap[t] /\ kw[k] = argMap[t][k]
               /\ "outputs_list" \in DOMAIN kw
               /\ \A k \in DOMAIN argMap[t] :
                     k \in DOMAIN kw <=> (pol = None \/ k \in Range(pol.xs) \/ k = "outputs_list")

C6_Witness ==
    \E t \in Threads :
        /\ Invoked(t) /\ Policy(body[t]) = List(<<"user">>)
        /\ DOMAIN argMap[t] = {"dash_app", "user", "callback_context", "outputs_list"}
        /\ DOMAIN calls[t][1].kwargs = {"user", "outputs_list"}

(***************************************************************************)
(* DjangoDash.get_expanded_arguments                                       *)
(***************************************************************************)
MaxPositionalOnly == 1
MaxPositionalOrKeyword == 4
MaxKeywordOnly == 2
MaxDeclaredInputs == 2
MaxDeclaredState == 1

PositionalOnlyNames == <<"p", "q", "r">>
PositionalOrKeywordNames == <<"a", "b", "c", "d", "e", "f">>
KeywordOnlyNames == <<"x", "y", "z", "w">>

Param(n, k) == [name |-> n, kind |-> k]

\* the parameter lists Python accepts: positional-only, positional-or-keyword,
\* *args, keyword-only, **kwargs, in that order
Signatures ==
    {[i \in 1..po |-> Param(PositionalOnlyNames[i], "POSITIONAL_ONLY")]
       \o [i \in 1..pk |-> Param(PositionalOrKeywordNames[i], "POSITIONAL_OR_KEYWORD")]
       \o (IF va THEN <<Param("args", "VAR_POSITIONAL")>> ELSE <<>>)
       \o [i \in 1..ko |-> Param(KeywordOnlyNames[i], "KEYWORD_ONLY")]
       \o (IF vk THEN <<Param("kwargs", "VAR_KEYWORD")>> ELSE <<>>) :
        po \in 0..MaxPositionalOnly, pk \in 0..MaxPositionalOrKeyword,
        va \in BOOLEAN, ko \in 0..MaxKeywordOnly, vk \in BOOLEAN}

DeclaredLists(n) == {[i \in 1..k |-> D_a] : k \in 0..n}

RECURSIVE groupby(_)
\* itertools.groupby(parameters, lambda p: p.kind): runs of equal kind
groupby(ps) ==
    IF ps = <<>> THEN <<>>
    ELSE LET rest == groupby(Tail(ps))
         IN  IF rest # <<>> /\ rest[1].kind = Head(ps).kind
             THEN <<[kind |-> Head(ps).kind, names |-> <<Head(ps).name>> \o rest[1].names]>>
                      \o Tail(rest)
             ELSE <<[kind |-> Head(ps).kind, names |-> <<Head(ps).name>>]>> \o rest

\* the dict comprehension over the groups: a later group of a kind replaces an earlier one
parameters_by_kind(ps) ==
    LET groups == groupby(ps)
        kinds == {groups[i].kind : i \in DOMAIN groups}
        last(k) == CHOOSE i \in DOMAIN groups :
                      /\ groups[i].kind = k
                      /\ \A j \in DOMAIN groups : groups[j].kind = k => j <= i
    IN  [k \in kinds |-> groups[last(k)].names]

\* xs[n:]
slice_from(xs, n) == SubSeq(xs, n + 1, Len(xs))

\* an analyser that tests the positional catch-all before the keyword catch-all
get_expanded_arguments_swapped(func, inputs, state) ==
    LET n_dash_parameters == Len(inputs) + Len(state)
        by_kind == parameters_by_kind(func)
        keyword_only == Get(by_kind, "KEYWORD_ONLY", <<>>)
    IN  IF "VAR_POSITIONAL" \in DOMAIN by_kind THEN List(keyword_only)
        ELSE IF "VAR_KEYWORD" \in DOMAIN by_kind THEN None
        ELSE List(slice_from(Get(by_kind, "POSITIONAL_OR_KEYWORD", <<>>), n_dash_parameters)
                    \o keyword_only)

\* django_dash.py
get_expanded_arguments(func, inputs, state) ==
    LET n_dash_parameters == Len(inputs) + Len(state)
        by_kind == parameters_by_kind(func)
        keyword_only == Get(by_kind, "KEYWORD_ONLY", <<>>)
    IN  IF "VAR_KEYWORD" \in DOMAIN by_kind THEN None
        ELSE IF "VAR_POSITIONAL" \in DOMAIN by_kind THEN List(keyword_only)
        ELSE LET non_dash_parameters ==
                     slice_from(Get(by_kind, "POSITIONAL_OR_KEYWORD", <<>>), n_dash_parameters)
             IN  List(non_dash_parameters \o keyword_only)

\* dash_wrapper.py
get_expanded_arguments_dw(func, inputs, state) ==
    LET n_dash_parameters == Len(inputs) + Len(state)
        parameter_types == parameters_by_kind(func)
    IN  IF "VAR_KEYWORD" \in DOMAIN parameter_types THEN None
        ELSE IF "VAR_POSITIONAL" \in DOMAIN parameter_types
             THEN List(Get(parameter_types, "KEYWORD_ONLY", <<>>))
             ELSE List(slice_from(Get(parameter_types, "POSITIONAL_OR_KEYWORD", <<>>),
                                  n_dash_parameters)
                         \o Get(parameter_types, "KEYWORD_ONLY", <<>>))

\* one call of get_expanded_arguments of each class on the same handler
Analyse ==
    /\ expanded_dd = Unset
    /\ expanded_dd' = get_expanded_arguments(sig, sig_inputs, sig_state)
    /\ expanded_dw' = get_expanded_arguments_dw(sig, sig_inputs, sig_state)
    /\ UNCHANGED <<sig, sig_inputs, sig_state, dispatch_vars, reg_vars, walk_vars, layout_vars, wid_vars, ns_vars>>

NoDispatch ==
    /\ callback_map = RegisteredTable
    /\ backend = EmptyMap
    /\ dash_callback_context = Unset
    /\ active = {}
    /\ IdleThreads
    /\ InstanceRegistered

InitSig ==
    /\ sig \in Signatures
    /\ sig_inputs \in DeclaredLists(MaxDeclaredInputs)
    /\ sig_state \in DeclaredLists(MaxDeclaredState)
    /\ expanded_dd = Unset
    /\ expanded_dw = Unset
    /\ NoNamespace
    /\ NoDispatch
    /\ NoTree
    /\ NoLayout

NextSig == Analyse

SpecSig == InitSig /\ [][NextSig]_vars

RECURSIVE names_of_kind(_, _)
names_of_kind(ps, k) ==
    IF ps = <<>> THEN <<>>
    ELSE (IF Head(ps).kind = k THEN <<Head(ps).name>> ELSE <<>>) \o names_of_kind(Tail(ps), k)

HasKind(ps, k) == \E i \in DOMAIN ps : ps[i].kind = k

\* C7: the policy is "inject all" if there is a keyword catch-all; else the
\* keyword-only names if there is a positional catch-all; else the
\* positional-or-keyword names after the first n = |inputs| + |state|,
\* followed by the keyword-only names.
C7_Policy ==
    expanded_dd # Unset
    => LET n == Len(sig_inputs) + Len(sig_state)
           pk == names_of_kind(sig, "POSITIONAL_OR_KEYWORD")
           ko == names_of_kind(sig, "KEYWORD_ONLY")
           expected ==
               IF HasKind(sig, "VAR_KEYWORD") THEN None
               ELSE IF HasKind(sig, "VAR_POSITIONAL") THEN List(ko)
               ELSE List([i \in 1..(IF Len(pk) > n THEN Len(pk) - n ELSE 0) |-> pk[n + i]] \o ko)
       IN  expanded_dd = expected /\ expanded_dw = expected

C7_Witness ==
    /\ HasKind(sig, "VAR_KEYWORD") /\ HasKind(sig, "VAR_POSITIONAL")
    /\ names_of_kind(sig, "KEYWORD_ONLY") # <<>>
    /\ expanded_dd = None /\ expanded_dw = None

C7_WitnessNamed ==
    /\ names_of_kind(sig, "POSITIONAL_OR_KEYWORD") = <<"a", "b", "c", "d">>
    /\ ~HasKind(sig, "VAR_KEYWORD") /\ ~HasKind(sig, "VAR_POSITIONAL")
    /\ Len(sig_inputs) = 2 /\ Len(sig_state) = 1
    /\ expanded_dd = List(<<"d">> \o names_of_kind(sig, "KEYWORD_ONLY"))

(***************************************************************************)
(* wid2str                                                                 *)
(***************************************************************************)
\* the characters of the model, in code point order
Alphabet == <<"\"", ",", ".", "0", "1", "2", "3", "4", "5", "6", "7", "8", "9", ":",
              "\\", "a", "b", "c", "d", "e", "f", "g", "h", "i", "j", "k", "l", "m", "n",
              "o", "p", "q", "r", "s", "t", "u", "v", "w", "x", "y", "z", "{", "}">>
ord(c) == CHOOSE i \in DOMAIN Alphabet : Alphabet[i] = c

RECURSIVE str_lt(_, _)
\* a < b on str
str_lt(a, b) ==
    IF b = <<>> THEN FALSE
    ELSE IF a = <<>> THEN TRUE
    ELSE IF Head(a) = Head(b) THEN str_lt(Tail(a), Tail(b))
    ELSE ord(Head(a)) < ord(Head(b))

RECURSIVE insert_item(_, _)
insert_item(sorted_items, item) ==
    IF sorted_items = <<>> THEN <<item>>
    ELSE IF str_lt(item.k, Head(sorted_items).k) THEN <<item>> \o sorted_items
    ELSE <<Head(sorted_items)>> \o insert_item(Tail(sorted_items), item)

RECURSIVE sorted_items(_)
\* sorted(wid.items())
sorted_items(kv) ==
    IF kv = <<>> THEN <<>> ELSE insert_item(sorted_items(Tail(kv)), Head(kv))

RECURSIVE escape(_)
escape(cs) ==
    IF cs = <<>> THEN <<>>
    ELSE (IF Head(cs) \in {"\"", "\\"} THEN <<"\\", Head(cs)>> ELSE <<Head(cs)>>)
             \o escape(Tail(cs))

Digits == <<"0", "1", "2", "3", "4", "5", "6", "7", "8", "9">>

RECURSIVE decimal(_)
decimal(n) == IF n < 10 THEN <<Digits[n + 1]>> ELSE decimal(n \div 10) \o <<Digits[(n % 10) + 1]>>

\* json.dumps of a str that forgets to escape
json_dumps_raw(v) ==
    CASE v.t = "str" -> <<"\"">> \o v.s \o <<"\"">>
      [] v.t = "num" -> decimal(v.n)
      [] v.t = "bool" -> IF v.b THEN <<"t", "r", "u", "e">> ELSE <<"f", "a", "l", "s", "e">>
      [] OTHER -> <<"n", "u", "l", "l">>

\* json.dumps of a scalar
json_dumps(v) ==
    CASE v.t = "str" -> <<"\"">> \o escape(v.s) \o <<"\"">>
      [] v.t = "num" -> decimal(v.n)
      [] v.t = "bool" -> IF v.b THEN <<"t", "r", "u", "e">> ELSE <<"f", "a", "l", "s", "e">>
      [] OTHER -> <<"n", "u", "l", "l">>

\* a canonical form that keeps the insertion order of the pairs
wid2str_unsorted(wid) ==
    IF wid.t = "str" THEN wid.s
    ELSE LET items == wid.kv
             data == join([i \in 1..Len(items) |->
                              json_dumps(JStr(items[i].k)) \o <<":">> \o json_dumps(items[i].v)],
                          <<",">>)
         IN  <<"{">> \o data \o <<"}">>

wid2str(wid) ==
    IF wid.t = "str" THEN wid.s
    ELSE LET items == sorted_items(wid.kv)
             data == join([i \in 1..Len(items) |->
                              json_dumps(JStr(items[i].k)) \o <<":">> \o json_dumps(items[i].v)],
                          <<",">>)
         IN  <<"{">> \o data \o <<"}">>

(***************************************************************************)
(* WrappedDash.walk_tree_and_replace                                       *)
(***************************************************************************)
S_id == <<"i", "d">>
S_value == <<"v", "a", "l", "u", "e">>
S_children == <<"c", "h", "i", "l", "d", "r", "e", "n">>
S_props == <<"p", "r", "o", "p", "s">>
S_label == <<"l", "a", "b", "e", "l">>
S_type == <<"t", "y", "p", "e">>
S_index == <<"i", "n", "d", "e", "x">>

KV(k, v) == [k |-> k, v |-> v]

\* data.get(key, None) on a JSON object
dict_get(d, key) ==
    IF \E i \in DOMAIN d.kv : d.kv[i].k = key
    THEN d.kv[CHOOSE i \in DOMAIN d.kv : d.kv[i].k = key].v
    ELSE JNull

\* lines 581-593: the replacements found for the node's id
replacements_for(data, ov) ==
    LET thisID == dict_get(data, S_id)
    IN  IF thisID.t = "dict"
        THEN IF wid2str(thisID) \in DOMAIN ov THEN ov[wid2str(thisID)] ELSE EmptyMap
        ELSE IF thisID # JNull
             THEN IF thisID.t = "str" THEN Get(ov, thisID.s, EmptyMap) ELSE EmptyMap
             ELSE EmptyMap

RECURSIVE walk_tree_and_replace_shallow(_, _)
\* a walk that does not rebuild the lists of the tree
walk_tree_and_replace_shallow(data, ov) ==
    IF data.t = "dict"
    THEN LET replacements == replacements_for(data, ov)
         IN  JDict([i \in DOMAIN data.kv |->
                      LET r == Get(replacements, data.kv[i].k, JNull)
                      IN  KV(data.kv[i].k,
                             IF r = JNull
                             THEN walk_tree_and_replace_shallow(data.kv[i].v, ov)
                             ELSE r)])
    ELSE IF data.t = "list"
         THEN JList(<<>>)
         ELSE data

RECURSIVE keys_in_order(_)
keys_in_order(S) ==
    IF S = {} THEN <<>>
    ELSE LET k == CHOOSE x \in S : \A y \in S : x = y \/ ~str_lt(y, x)
         IN  <<k>> \o keys_in_order(S \ {k})

RECURSIVE walk_tree_and_replace_adding(_, _)
\* a walk that also stores the replacements the node has no key for
walk_tree_and_replace_adding(data, ov) ==
    IF data.t = "dict"
    THEN LET replacements == replacements_for(data, ov)
             own == {data.kv[i].k : i \in DOMAIN data.kv}
             extra == keys_in_order(DOMAIN replacements \ own)
         IN  JDict([i \in DOMAIN data.kv |->
                      LET r == Get(replacements, data.kv[i].k, JNull)
                      IN  KV(data.kv[i].k,
                             IF r = JNull
                             THEN walk_tree_and_replace_adding(data.kv[i].v, ov)
                             ELSE r)]
                   \o [i \in DOMAIN extra |-> KV(extra[i], replacements[extra[i]])])
    ELSE IF data.t = "list"
         THEN JList([i \in DOMAIN data.xs |-> walk_tree_and_replace_adding(data.xs[i], ov)])
         ELSE data

RECURSIVE walk_tree_and_replace(_, _)
walk_tree_and_replace(data, ov) ==
    IF data.t = "dict"
    THEN LET replacements == replacements_for(data, ov)
         IN  JDict([i \in DOMAIN data.kv |->
                      LET r == Get(replacements, data.kv[i].k, JNull)
                      IN  KV(data.kv[i].k,
                             IF r = JNull
                             THEN walk_tree_and_replace(data.kv[i].v, ov)
                             ELSE r)])
    ELSE IF data.t = "list"
         THEN JList([i \in DOMAIN data.xs |-> walk_tree_and_replace(data.xs[i], ov)])
         ELSE data

MaxNodes == 3

P_index0 == JDict(<<KV(S_type, JStr(<<"f">>)), KV(S_index, JNum(0))>>)
P_index1 == JDict(<<KV(S_type, JStr(<<"f">>)), KV(S_index, JNum(1))>>)
K_index0 == <<"{", "\"", "i", "n", "d", "e", "x", "\"", ":", "0", ",",
              "\"", "t", "y", "p", "e", "\"", ":", "\"", "f", "\"", "}">>
NodeIds == {JNull, JStr(<<"x">>), P_index0, P_index1}

\* a component: its id (if any), a property, and what it nests
Component(id, nested) ==
    JDict((IF id = JNull THEN <<>> ELSE <<KV(S_id, id)>>) \o <<KV(S_value, JNum(1))>> \o nested)

RECURSIVE TreesOfSize(_)
RECURSIVE ForestsOfSize(_)
TreesOfSize(n) ==
    IF n = 1 THEN {Component(id, <<>>) : id \in NodeIds}
    ELSE {Component(JNull, <<KV(S_props, c)>>) : c \in TreesOfSize(n - 1)}
         \cup {Component(id, <<KV(S_children, c)>>) : id \in NodeIds, c \in TreesOfSize(n - 1)}
         \cup {Component(id, <<KV(S_children, JList(f))>>) :
                  id \in NodeIds, f \in ForestsOfSize(n - 1)}
ForestsOfSize(m) ==
    IF m = 0 THEN {<<>>}
    ELSE UNION {{<<c>> \o f : c \in TreesOfSize(k), f \in ForestsOfSize(m - k)} : k \in 1..m}

Trees == UNION {TreesOfSize(n) : n \in 1..MaxNodes}

OverrideValues ==
    {JNum(99), JNull, JBool(FALSE), JNum(0), JList(<<>>),
     JDict(<<KV(S_id, JStr(<<"x">>)), KV(S_value, JNum(1))>>)}

OverrideMaps ==
    {EmptyMap}
    \cup {[k \in {<<"x">>} |-> [q \in {S_value} |-> v]] : v \in OverrideValues}
    \cup {[k \in {<<"x">>} |-> [q \in {S_children} |-> v]] :
             v \in {JNull, JList(<<>>), JDict(<<KV(S_id, JStr(<<"x">>)), KV(S_value, JNum(1))>>)}}
    \cup {[k \in {<<"x">>} |-> [q \in {S_label} |-> JNum(99)]]}
    \cup {[k \in {K_index0} |-> [q \in {S_value} |-> v]] : v \in {JNum(99), JNull}}
    \cup {[k \in {<<"x">>, K_index0} |-> [q \in {S_value} |-> JNum(7)]]}
    \cup {[k \in {<<"x">>} |->
              [q \in {S_value, S_children} |->
                  IF q = S_value THEN JNum(99)
                  ELSE JDict(<<KV(S_id, JStr(<<"x">>)), KV(S_value, JNum(1))>>)]]}

\* lines 564-604: one call; the code stores nothing into data or overrides
Replace ==
    /\ replaced = Unset
    /\ replaced' = walk_tree_and_replace(tree, overrides)
    /\ tree_after' = tree
    /\ overrides_after' = overrides
    /\ UNCHANGED <<tree, overrides, target, extracted,
                   dispatch_vars, reg_vars, sig_vars, layout_vars, wid_vars, ns_vars>>

InitWalk ==
    /\ tree \in Trees
    /\ overrides \in OverrideMaps
    /\ tree_after = tree
    /\ overrides_after = overrides
    /\ replaced = Unset
    /\ target = EmptyMap
    /\ extracted = Unset
    /\ NoDispatch
    /\ NoSignature
    /\ NoNamespace
    /\ NoLayout

NextWalk == Replace

SpecWalk == InitWalk /\ [][NextWalk]_vars

RECURSIVE Depth(_)
Max(S) == CHOOSE x \in S : \A y \in S : y <= x
Depth(data) ==
    IF data.t = "dict" THEN 1 + Max({0} \cup {Depth(data.kv[i].v) : i \in DOMAIN data.kv})
    ELSE IF data.t = "list" THEN Max({0} \cup {Depth(data.xs[i]) : i \in DOMAIN data.xs})
    ELSE 0

\* C9: walk_tree_and_replace(tree, {}) is deep-equal to the tree, and the
\* call leaves the tree and the override map as they were.
C9_NoOp ==
    replaced # Unset
    => /\ (overrides = EmptyMap => replaced = tree)
       /\ tree_after = tree
       /\ overrides_after = overrides

C9_Witness ==
    /\ replaced # Unset /\ overrides = EmptyMap /\ replaced = tree
    /\ Depth(tree) >= 3
    /\ \E i \in DOMAIN tree.kv : tree.kv[i].k = S_children /\ tree.kv[i].v.t = "list"
    /\ dict_get(tree, S_id) = P_index0

RECURSIVE VerbatimAt(_, _, _)
\* at every dict node with an id: each own property the node's override entry
\* names carries the override value; the other values are compared in turn
VerbatimAt(data, out, ov) ==
    IF data.t = "dict"
    THEN /\ out.t = "dict" /\ DOMAIN out.kv = DOMAIN data.kv
         /\ \A i \in DOMAIN data.kv :
               LET id == dict_get(data, S_id)
                   key == IF id = JNull THEN <<>> ELSE wid2str(id)
                   named == id # JNull /\ key \in DOMAIN ov /\ data.kv[i].k \in DOMAIN ov[key]
               IN  IF named
                   THEN out.kv[i].v = ov[key][data.kv[i].k]
                   ELSE VerbatimAt(data.kv[i].v, out.kv[i].v, ov)
    ELSE IF data.t = "list"
         THEN /\ out.t = "list" /\ DOMAIN out.xs = DOMAIN data.xs
              /\ \A i \in DOMAIN data.xs : VerbatimAt(data.xs[i], out.xs[i], ov)
         ELSE TRUE

\* C10 (as stated): every own property of a node that the override entry of
\* the node's id names carries the override value verbatim, whatever that
\* value is (null, false, 0 and empty containers included).
C10_Original == replaced # Unset => VerbatimAt(tree, replaced, overrides)

\* C10, without null: the same for every override value other than null.
C10_NonNull ==
    (replaced # Unset /\ \A k \in DOMAIN overrides : \A q \in DOMAIN overrides[k] :
                             overrides[k][q] # JNull)
    => VerbatimAt(tree, replaced, overrides)

RECURSIVE PatternAt(_, _, _)
\* at every node with a pattern id: the own properties named by the override
\* entry under the canonical string of the id carry the override value, and
\* when no override key is that string the node keeps every own property
PatternAt(data, out, ov) ==
    IF data.t = "dict"
    THEN /\ out.t = "dict" /\ DOMAIN out.kv = DOMAIN data.kv
         /\ \A i \in DOMAIN data.kv :
               LET id == dict_get(data, S_id)
                   key == IF id = JNull THEN <<>> ELSE wid2str(id)
                   named == id # JNull /\ key \in DOMAIN ov /\ data.kv[i].k \in DOMAIN ov[key]
               IN  /\ out.kv[i].k = data.kv[i].k
                   /\ IF named
                      THEN id.t = "dict" => out.kv[i].v = ov[key][data.kv[i].k]
                      ELSE PatternAt(data.kv[i].v, out.kv[i].v, ov)
    ELSE IF data.t = "list"
         THEN /\ out.t = "list" /\ DOMAIN out.xs = DOMAIN data.xs
              /\ \A i \in DOMAIN data.xs : PatternAt(data.xs[i], out.xs[i], ov)
         ELSE out = data

\* C11 (as stated): a node with a pattern id gets its properties substituted
\* exactly when the canonical string of its id is a key of the override map;
\* a pattern node matching no key is returned with its own properties intact.
C11_Original == replaced # Unset => PatternAt(tree, replaced, overrides)

\* C11, without null: the same when no override value is null.
C11_NonNull ==
    (replaced # Unset /\ \A k \in DOMAIN overrides : \A q \in DOMAIN overrides[k] :
                             overrides[k][q] # JNull)
    => PatternAt(tree, replaced, overrides)

(***************************************************************************)
(* The initial layout of an instance: augment_initial_layout               *)
(***************************************************************************)
MaxLayoutNodes == 2

LayoutTrees == UNION {TreesOfSize(n) : n \in 1..MaxLayoutNodes}

\* the initial_arguments parameter: None, or a dict
Given_dict(d) == [dict |-> d]
InitialArguments ==
    {None, Given_dict(EmptyMap)}
    \cup {Given_dict([k \in {<<"x">>} |-> [q \in {S_value} |-> v]]) : v \in {JNum(99), JNull}}
    \cup {Given_dict([k \in {<<"x">>} |-> [q \in {S_children} |-> JList(<<>>)]])}
    \cup {Given_dict([k \in {<<"x">>} |-> [q \in {S_label} |-> JNum(99)]])}
    \cup {Given_dict([k \in {K_index0} |-> [q \in {S_value} |-> JNum(99)]])}

\* json.dumps(data): the text of a JSON value, named by the value it denotes
dumps(data) == [json |-> data]

\* initial_arguments or {}
or_empty(d) == IF d = None THEN EmptyMap ELSE d.dict

\* an update that merges the two entries of a key property by property
dict_update_deep(a, b) ==
    [k \in DOMAIN a \cup DOMAIN b |->
        IF k \in DOMAIN a /\ k \in DOMAIN b
        THEN [q \in DOMAIN a[k] \cup DOMAIN b[k] |->
                 IF q \in DOMAIN b[k] THEN b[k][q] ELSE a[k][q]]
        ELSE IF k \in DOMAIN b THEN b[k] ELSE a[k]]

\* {**a, **b}
dict_update(a, b) ==
    [k \in DOMAIN a \cup DOMAIN b |-> IF k \in DOMAIN b THEN b[k] ELSE a[k]]

\* lines 501-536
AugmentInitialLayout ==
    /\ response_data = Unset
    /\ LET baseData == json_loads(dumps(tree))
           merged == dict_update(_replacements, or_empty(initial_arguments))
           reworked_data == walk_tree_and_replace(baseData, merged)
       IN  /\ overrides' = merged
           /\ replaced' = reworked_data
           /\ response_data' = dumps(reworked_data)
    /\ tree_after' = tree
    /\ overrides_after' = dict_update(_replacements, or_empty(initial_arguments))
    /\ UNCHANGED <<tree, target, extracted, _replacements, initial_arguments,
                   dispatch_vars, reg_vars, sig_vars, wid_vars, ns_vars>>

InitLayout ==
    /\ tree \in LayoutTrees
    /\ _replacements \in OverrideMaps
    /\ initial_arguments \in InitialArguments
    /\ response_data = Unset
    /\ overrides = EmptyMap
    /\ tree_after = tree
    /\ overrides_after = EmptyMap
    /\ replaced = Unset
    /\ target = EmptyMap
    /\ extracted = Unset
    /\ wid_a = JNull
    /\ wid_b = JNull
    /\ str_a = Unset
    /\ str_b = Unset
    /\ NoDispatch
    /\ NoSignature
    /\ NoNamespace

NextLayout == AugmentInitialLayout

SpecLayout == InitLayout /\ [][NextLayout]_vars

Given == or_empty(initial_arguments)
BothGive(key) == key \in DOMAIN _replacements /\ key \in DOMAIN Given

RECURSIVE OnlyLowerApplied(_, _)
\* property-level merge: where both sources give an entry for the id of a
\* node, an own property that only the replacements entry names (with a value
\* other than null) carries the value the replacements give
OnlyLowerApplied(data, out) ==
    IF data.t = "dict"
    THEN /\ out.t = "dict" /\ DOMAIN out.kv = DOMAIN data.kv
         /\ \A i \in DOMAIN data.kv :
               LET id == dict_get(data, S_id)
                   key == IF id = JNull THEN <<>> ELSE wid2str(id)
                   q == data.kv[i].k
               IN  IF id # JNull /\ BothGive(key)
                   THEN (q \in DOMAIN _replacements[key] /\ q \notin DOMAIN Given[key]
                            /\ _replacements[key][q] # JNull)
                        => out.kv[i].v = _replacements[key][q]
                   ELSE id = JNull => OnlyLowerApplied(data.kv[i].v, out.kv[i].v)
    ELSE IF data.t = "list"
         THEN /\ out.t = "list" /\ DOMAIN out.xs = DOMAIN data.xs
              /\ \A i \in DOMAIN data.xs : OnlyLowerApplied(data.xs[i], out.xs[i])
         ELSE TRUE

\* C12 (as stated): replacements and initial arguments merge at the property
\* level: when both give an entry for an identifier, a property that only the
\* replacements give is still applied.
C12_Original == response_data # Unset => OnlyLowerApplied(tree, json_loads(response_data))

RECURSIVE EntryShadowed(_, _)
\* identifier-level merge: the entry in force for the id of a node is the one
\* of the initial arguments when they give one, else the one of the
\* replacements; a property that entry names with a value other than null
\* carries that value, every other own property is the node's own, walked
EntryShadowed(data, out) ==
    IF data.t = "dict"
    THEN /\ out.t = "dict" /\ DOMAIN out.kv = DOMAIN data.kv
         /\ \A i \in DOMAIN data.kv :
               LET id == dict_get(data, S_id)
                   key == IF id = JNull THEN <<>> ELSE wid2str(id)
                   entry == IF id = JNull THEN EmptyMap
                            ELSE IF key \in DOMAIN Given THEN Given[key]
                            ELSE IF key \in DOMAIN _replacements THEN _replacements[key]
                            ELSE EmptyMap
                   q == data.kv[i].k
               IN  /\ out.kv[i].k = q
                   /\ IF q \in DOMAIN entry /\ entry[q] # JNull
                      THEN out.kv[i].v = entry[q]
                      ELSE EntryShadowed(data.kv[i].v, out.kv[i].v)
    ELSE IF data.t = "list"
         THEN /\ out.t = "list" /\ DOMAIN out.xs = DOMAIN data.xs
              /\ \A i \in DOMAIN data.xs : EntryShadowed(data.xs[i], out.xs[i])
         ELSE out = data

\* C12 (amended): the merge is at the identifier level: the entry the initial
\* arguments give for an identifier replaces the whole entry the replacements
\* give for it, so a property only the replacements name is not applied.
C12_Amended == response_data # Unset => EntryShadowed(tree, json_loads(response_data))

C12_Witness ==
    /\ response_data # Unset
    /\ BothGive(<<"x">>)
    /\ DOMAIN _replacements[<<"x">>] = {S_children}
    /\ DOMAIN Given[<<"x">>] = {S_value}
    /\ Given[<<"x">>][S_value] = JNum(99)
    /\ dict_get(tree, S_id) = JStr(<<"x">>)
    /\ dict_get(tree, S_children) # JNull
    /\ dict_get(json_loads(response_data), S_value) = JNum(99)
    /\ dict_get(json_loads(response_data), S_children) = dict_get(tree, S_children)
    /\ dict_get(tree, S_children) # _replacements[<<"x">>][S_children]

(***************************************************************************)
(* Identifiers handed to wid2str                                           *)
(***************************************************************************)
MaxIdLen == 2
MaxPatternKeys == 2

IdChars == {"a", "b", "\""}
\* a key whose text, left unescaped, would read as two pairs
K_quoted == <<"a", "\"", ":", "0", ",", "\"", "b">>
PatternKeys == {<<"a">>, <<"b">>, K_quoted}
PatternValues == {JNum(0), JStr(<<"0">>), JBool(TRUE)}

\* dicts in every insertion order: sequences of pairs with distinct keys
PatternIds ==
    {JDict(kv) : kv \in {q \in UNION {[1..n -> [k : PatternKeys, v : PatternValues]] :
                                        n \in 1..MaxPatternKeys} :
                            \A i, j \in DOMAIN q : i # j => q[i].k # q[j].k}}

StringIds ==
    {JStr(cs) : cs \in SeqsUpTo(IdChars, MaxIdLen)}
    \cup {JStr(<<"{", "\"", "a", "\"", ":", "0", "}">>),
          JStr(<<"{", "\"", "a", "\"", ":", "\"", "0", "\"", "}">>)}

\* identifiers of neither shape: a number, a list
OtherIds == {JNum(5), JList(<<JNum(1)>>)}

Wids == StringIds \cup PatternIds \cup OtherIds

\* one call of wid2str: wid.items() raises AttributeError on what is neither
\* a str nor a dict
wid2str_call(wid) ==
    IF wid.t \in {"str", "dict"} THEN Return(wid2str(wid)) ELSE Raise("AttributeError")

Canonicalize ==
    /\ str_a = Unset
    /\ str_a' = wid2str_call(wid_a)
    /\ str_b' = wid2str_call(wid_b)
    /\ UNCHANGED <<wid_a, wid_b, _replacements, initial_arguments, response_data,
                   dispatch_vars, reg_vars, sig_vars, walk_vars, ns_vars>>

InitWid ==
    /\ wid_a \in Wids
    /\ wid_b \in Wids
    /\ str_a = Unset
    /\ str_b = Unset
    /\ _replacements = EmptyMap
    /\ initial_arguments = None
    /\ response_data = Unset
    /\ NoDispatch
    /\ NoSignature
    /\ NoNamespace
    /\ NoTree

NextWid == Canonicalize

SpecWid == InitWid /\ [][NextWid]_vars

Shaped(wid) == wid.t \in {"str", "dict"}
Pairs(wid) == {wid.kv[i] : i \in DOMAIN wid.kv}
\* the pairs of a pattern, keys ascending
Ascending(wid) ==
    CHOOSE q \in [1..Len(wid.kv) -> Pairs(wid)] :
        \A i, j \in DOMAIN q : i < j => str_lt(q[i].k, q[j].k)
PairText(kv) == json_dumps(JStr(kv.k)) \o <<":">> \o json_dumps(kv.v)
CanonicalText(wid) ==
    <<"{">> \o join([i \in 1..Len(wid.kv) |-> PairText(Ascending(wid)[i])], <<",">>) \o <<"}">>

\* C13: wid2str returns a plain string unchanged, applying it to its own
\* result changes nothing, and a pattern gives the same text for every
\* insertion order of its pairs: the pairs in ascending key order.
C13_Canonical ==
    str_a # Unset
    => /\ wid_a.t = "str" => str_a = Return(wid_a.s)
       /\ Shaped(wid_a) => wid2str_call(JStr(str_a.val)) = str_a
       /\ wid_a.t = "dict" => str_a.val = CanonicalText(wid_a)
       /\ (wid_a.t = "dict" /\ wid_b.t = "dict" /\ Pairs(wid_a) = Pairs(wid_b)) => str_a = str_b

C13_Witness ==
    /\ str_a # Unset
    /\ wid_a.t = "dict" /\ wid_b.t = "dict"
    /\ Len(wid_a.kv) = 2
    /\ wid_a # wid_b
    /\ Pairs(wid_a) = Pairs(wid_b)
    /\ str_lt(wid_a.kv[2].k, wid_a.kv[1].k)
    /\ str_a = str_b

\* equal identifiers: the same string, or patterns with the same pairs
SameIdentifier(a, b) ==
    /\ a.t = b.t
    /\ IF a.t = "dict" THEN Pairs(a) = Pairs(b) ELSE a = b

\* C14 (as stated): two identifiers have the same wid2str result exactly when
\* they are equal; a pattern never shares its result with a plain string.
C14_Original ==
    (str_a # Unset /\ Shaped(wid_a) /\ Shaped(wid_b))
    => (str_a = str_b <=> SameIdentifier(wid_a, wid_b))

\* C14 (amended): two identifiers of the same shape (two plain strings, or two
\* patterns) have the same wid2str result exactly when they are equal.
C14_Amended ==
    (str_a # Unset /\ Shaped(wid_a) /\ wid_a.t = wid_b.t)
    => (str_a = str_b <=> SameIdentifier(wid_a, wid_b))

C14_Witness ==
    /\ str_a # Unset
    /\ wid_a.t = "dict" /\ wid_b.t = "dict"
    /\ Len(wid_a.kv) = 1 /\ wid_a.kv[1].k = K_quoted
    /\ Len(wid_b.kv) = 2
    /\ wid_b.kv[1].k = <<"a">> /\ wid_b.kv[2].k = <<"b">>
    /\ wid_b.kv[1].v = JNum(0) /\ wid_b.kv[2].v = wid_a.kv[1].v
    /\ str_a # str_b

(***************************************************************************)
(* Registration through DjangoDash.callback and the forming of an instance *)
(***************************************************************************)
signature(f) ==
    CASE f = "h_named" -> <<Param("a", "POSITIONAL_OR_KEYWORD"), Param("user", "POSITIONAL_OR_KEYWORD")>>
      [] f = "h_all" -> <<Param("a", "POSITIONAL_OR_KEYWORD"), Param("b", "POSITIONAL_OR_KEYWORD"),
                          Param("kwargs", "VAR_KEYWORD")>>
      [] f = "h_none" -> <<Param("a", "POSITIONAL_OR_KEYWORD")>>
      [] OTHER -> <<Param("a", "POSITIONAL_OR_KEYWORD"), Param("kwargs", "VAR_KEYWORD")>>

O_oc == Single(Dep(JStr(<<"o">>), <<"c">>))
O_pv == Single(Dep(JStr(<<"p">>), <<"v">>))
O_qw == Single(Dep(JStr(<<"q">>), <<"w">>))

\* the decorated handlers of the program, applied in any order
Declarations ==
    {[template |-> "dw", reg |-> Registration(CallbackSet(O_oc, <<D_a>>, <<>>), "h_named")],
     [template |-> "dw", reg |-> Registration(CallbackSet(O_pv, <<D_a>>, <<D_s>>), "h_named")],
     [template |-> "dw", reg |-> Registration(CallbackSet(O_qw, <<D_a>>, <<>>), "h_all")],
     [template |-> "dd", reg |-> Registration(CallbackSet(O_oc, <<D_a>>, <<>>), "h_named")],
     [template |-> "dd", reg |-> Registration(CallbackSet(O_pv, <<D_a>>, <<>>), "h_twin")]}

\* DjangoDash.callback(...)(func): wrap_func of either class
Register(d) ==
    /\ d.reg \notin Range(callback_sets[d.template])
    /\ callback_sets' = [callback_sets EXCEPT ![d.template] = Append(@, d.reg)]
    /\ LET cs == d.reg.callback_set
           func == d.reg.func
       IN  IF d.template = "dw"
           THEN LET e == get_expanded_arguments_dw(signature(func), cs.inputs, cs.state)
                IN  /\ func_expanded' = [func_expanded EXCEPT ![func] = e]
                    /\ analyses' = Append(analyses, Analysis(d.template, func, cs, e))
                    /\ UNCHANGED expanded_parameters
           ELSE LET e == get_expanded_arguments(signature(func), cs.inputs, cs.state)
                IN  /\ expanded_parameters' = SetItem(expanded_parameters, qualname(func), e)
                    /\ analyses' = Append(analyses, Analysis(d.template, func, cs, e))
                    /\ UNCHANGED func_expanded
    /\ UNCHANGED <<instance_of, registry_apps, constructed,
                   dispatch_vars, sig_vars, walk_vars, layout_vars, wid_vars, ns_vars>>

\* dash's create_callback_id: the key of a registration in callback_map
concat_id(d) ==
    LET escaped == join(split(wid2str(d.id), Dot), <<"\\", ".">>)
    IN  escaped \o Dot \o d.property

create_callback_id(output) ==
    IF output.multi
    THEN DotDot \o join([i \in DOMAIN output.deps |-> concat_id(output.deps[i])], DotDotDot) \o DotDot
    ELSE concat_id(output.deps[1])

\* the callable stored in callback_map: the handler, carrying the policy its
\* registration left on the function or under its __qualname__
wraps(func, attrs, params) ==
    LET e == IF attrs[func] # NoAttribute THEN attrs[func]
             ELSE Get(params, qualname(func), NoAttribute)
    IN  IF e = NoAttribute THEN [name |-> func] ELSE [name |-> func, expanded |-> e]

\* self._uid of the instance
InstanceUid == <<"i", "1">>

RECURSIVE repr_escape(_)
repr_escape(cs) ==
    IF cs = <<>> THEN <<>>
    ELSE (IF Head(cs) \in {"'", "\\"} THEN <<"\\", Head(cs)>> ELSE <<Head(cs)>>)
             \o repr_escape(Tail(cs))

\* repr() of a scalar
py_repr(v) ==
    CASE v.t = "str" ->
            IF "'" \in Range(v.s) /\ "\"" \notin Range(v.s)
            THEN <<"\"">> \o v.s \o <<"\"">>
            ELSE <<"'">> \o repr_escape(v.s) \o <<"'">>
      [] v.t = "num" -> decimal(v.n)
      [] v.t = "bool" -> IF v.b THEN <<"T", "r", "u", "e">> ELSE <<"F", "a", "l", "s", "e">>
      [] OTHER -> <<"N", "o", "n", "e">>

\* what an f-string makes of name: a str as it is, a dict in its repr
py_str(name) ==
    IF name.t = "str" THEN name.s
    ELSE IF name.t = "dict"
         THEN <<"{">> \o join([i \in DOMAIN name.kv |->
                                  py_repr(JStr(name.kv[i].k)) \o <<":", " ">> \o py_repr(name.kv[i].v)],
                              <<",", " ">>) \o <<"}">>
         ELSE py_repr(name)

\* a rewriting that does not look at the switch
fix_id_always(adjust, name) == JStr(InstanceUid \o <<"_", "-", "_">> \o py_str(name))

\* lines 674-690
fix_id(adjust, name) ==
    IF ~adjust THEN name
    ELSE JStr(InstanceUid \o <<"_", "-", "_">> \o py_str(name))

\* lines 692-695
fix_callback_item(adjust, item) == [item EXCEPT !.id = fix_id(adjust, item.id)]

\* lines 697-709: WrappedDash.callback(...)(func), the table entry dash makes of it
instance_callback(cm, adjust, cb, callable) ==
    LET fixed_outputs == [cb.output EXCEPT !.deps =
                             [i \in DOMAIN cb.output.deps |-> fix_callback_item(adjust, cb.output.deps[i])]]
    IN  SetItem(cm, create_callback_id(fixed_outputs),
                [inputs |-> [i \in DOMAIN cb.inputs |-> fix_callback_item(adjust, cb.inputs[i])],
                 state |-> [i \in DOMAIN cb.state |-> fix_callback_item(adjust, cb.state[i])],
                 callback |-> callable])

\* a registration pass that stops after the first pair
register_first(cm, sets, attrs, params) ==
    IF sets = <<>> THEN cm
    ELSE instance_callback(cm, FALSE, Head(sets).callback_set,
                           wraps(Head(sets).func, attrs, params))

RECURSIVE register_all(_, _, _, _)
\* the loop of form_dash_instance: rd.callback(**cb)(func) for each pair, in
\* order, on an instance fresh from __init__ (_adjust_id False)
register_all(cm, sets, attrs, params) ==
    IF sets = <<>> THEN cm
    ELSE register_all(instance_callback(cm, FALSE, Head(sets).callback_set,
                                        wraps(Head(sets).func, attrs, params)),
                      Tail(sets), attrs, params)

\* form_dash_instance: a fresh instance whose table holds the template's registrations
FormInstance(tpl) ==
    /\ instance_of = "none"
    /\ instance_of' = tpl
    /\ callback_map' = register_all(EmptyMap, callback_sets[tpl], func_expanded, expanded_parameters)
    /\ UNCHANGED <<backend, dash_callback_context, active, pc, body, argMap, args, outputs,
                   res, result, calls, log,
                   callback_sets, func_expanded, expanded_parameters, analyses,
                   registry_apps, constructed,
                   sig_vars, walk_vars, layout_vars, wid_vars, ns_vars>>

E_s == [id |-> <<"s">>, property |-> <<"v">>, value |-> JNum(8)]

\* the requests sent to an instance formed from a template
InstanceBodies ==
    {[output |-> create_callback_id(o), inputs |-> <<One(E_a)>>, state |-> s,
      changedPropIds |-> <<>>] :
        o \in {O_oc, O_pv, O_qw}, s \in {<<>>, <<One(E_s)>>}}

\* a request arrives at the instance
ReceiveAtInstance(t) ==
    /\ instance_of # "none"
    /\ t \in active
    /\ pc[t] = "idle"
    /\ \E b \in InstanceBodies :
          /\ body' = [body EXCEPT ![t] = b]
          /\ argMap' = [argMap EXCEPT ![t] = [dash_app |-> NoneObj, user |-> User]]
    /\ pc' = [pc EXCEPT ![t] = "begin"]
    /\ UNCHANGED <<callback_map, backend, dash_callback_context, active, args, outputs,
                   res, result, calls, log,
                   reg_vars, sig_vars, walk_vars, layout_vars, wid_vars, ns_vars>>

\* the templates exist, nothing is registered, no instance is formed
InitReg ==
    /\ callback_map = EmptyMap
    /\ backend = EmptyMap
    /\ dash_callback_context = Unset
    /\ active = {"t1"}
    /\ IdleThreads
    /\ callback_sets = [tpl \in Templates |-> <<>>]
    /\ func_expanded = [f \in FuncObjects |-> NoAttribute]
    /\ expanded_parameters = EmptyMap
    /\ analyses = <<>>
    /\ instance_of = "none"
    /\ registry_apps = EmptyMap
    /\ constructed = <<>>
    /\ NoSignature
    /\ NoNamespace
    /\ NoTree
    /\ NoLayout

NextReg ==
    \/ \E d \in Declarations : Register(d)
    \/ \E tpl \in Templates : FormInstance(tpl)
    \/ \E t \in Threads : ReceiveAtInstance(t)
    \/ \E t \in Threads : Begin(t)
    \/ \E t \in Threads : Lookup(t)
    \/ \E t \in Threads : BuildArgs(t)
    \/ \E t \in Threads : Invoke(t)
    \/ \E t \in Threads : Store(t)

SpecReg == InitReg /\ [][NextReg]_vars

\* the policy computed when the template of the instance registered the output
RegisteredPolicies(key) ==
    {a.expanded : a \in {x \in Range(analyses) :
                            x.template = instance_of /\ create_callback_id(x.output) = key}}

NumRegistered == Len(callback_sets["dw"]) + Len(callback_sets["dd"])

\* C8 (as stated): the expansion policy is computed exactly once per
\* registration through DjangoDash.callback, never by a dispatch, and every
\* dispatch that invokes a handler uses the policy computed at the
\* registration of the output it serves.
C8_Original ==
    /\ Len(analyses) = NumRegistered
    /\ \A t \in Threads :
          Invoked(t) => RegisteredPolicies(body[t].output) = {calls[t][1].policy}

\* the instance of the dispatch specification is the one its template forms
FormedFromTemplate ==
    callback_map = register_all(EmptyMap, callback_sets[instance_of], func_expanded, expanded_parameters)

(***************************************************************************)
(* Namespacing of identifiers on an instance.  A component is a dict of    *)
(* its attributes.                                                         *)
(***************************************************************************)
set_attr(component, k, v) ==
    JDict([i \in DOMAIN component.kv |->
              IF component.kv[i].k = k THEN KV(k, v) ELSE component.kv[i]])

RECURSIVE fix_component_id(_)
\* lines 664-672.  Iterating component.children visits the elements of a
\* list; iterating a single component yields identifiers (str), and what
\* cannot be iterated, or has no children, raises inside suppress(Exception)
fix_component_id(component) ==
    IF component.t # "dict" THEN component
    ELSE LET component_id == dict_get(component, S_id)
             named == IF component_id # JNull
                      THEN set_attr(component, S_id, fix_id(TRUE, component_id))
                      ELSE component
             children == dict_get(named, S_children)
         IN  IF children.t = "list"
             THEN set_attr(named, S_children,
                           JList([i \in DOMAIN children.xs |-> fix_component_id(children.xs[i])]))
             ELSE named

\* the caller switches namespacing on
EnableNamespacing ==
    /\ ~_adjust_id
    /\ _adjust_id' = TRUE
    /\ UNCHANGED <<layout, layout_given, refs_given, template_layout, template_given, instances,
                   dispatch_vars, reg_vars, sig_vars, walk_vars, layout_vars, wid_vars>>

\* lines 650-663: the layout setter
SetLayout(value) ==
    /\ layout = Unset
    /\ layout_given' = [value |-> value, adjust |-> _adjust_id]
    /\ layout' = IF _adjust_id THEN fix_component_id(value) ELSE value
    /\ UNCHANGED <<_adjust_id, refs_given, template_layout, template_given, instances,
                   dispatch_vars, reg_vars, sig_vars, walk_vars, layout_vars, wid_vars>>

P_ab == JDict(<<KV(<<"b">>, JNum(0)), KV(<<"a">>, JStr(<<"f">>))>>)

\* the callbacks registered on the instance
InstanceCallbackSets ==
    {CallbackSet(O_oc, <<D_a>>, <<>>),
     CallbackSet(Multi(<<Dep(JStr(<<"p">>), <<"v">>), Dep(JStr(<<"x">>), <<"value">>)>>),
                 <<D_a, D_b>>, <<D_s>>),
     CallbackSet(Single(Dep(P_ab, <<"c">>)), <<Dep(JStr(<<"x">>), <<"value">>)>>, <<>>)}

TheCallable == [name |-> "h_none", expanded |-> List(<<>>)]

\* lines 697-709
RegisterOnInstance(cb) ==
    /\ \A i \in DOMAIN refs_given : refs_given[i].cb # cb
    /\ refs_given' = Append(refs_given, [cb |-> cb, adjust |-> _adjust_id])
    /\ callback_map' = instance_callback(callback_map, _adjust_id, cb, TheCallable)
    /\ UNCHANGED <<_adjust_id, layout, layout_given, template_layout, template_given, instances,
                   backend, dash_callback_context, active, pc, body, argMap, args, outputs,
                   res, result, calls, log,
                   reg_vars, sig_vars, walk_vars, layout_vars, wid_vars>>

\* a new instance: lines 456-482
InitNs ==
    /\ callback_map = EmptyMap
    /\ backend = EmptyMap
    /\ dash_callback_context = Unset
    /\ active = {}
    /\ IdleThreads
    /\ callback_sets = [tpl \in Templates |-> <<>>]
    /\ func_expanded = [f \in FuncObjects |-> NoAttribute]
    /\ expanded_parameters = EmptyMap
    /\ analyses = <<>>
    /\ instance_of = "none"
    /\ registry_apps = EmptyMap
    /\ constructed = <<>>
    /\ _adjust_id = FALSE
    /\ layout = Unset
    /\ layout_given = Unset
    /\ refs_given = <<>>
    /\ template_layout = Unset
    /\ template_given = Unset
    /\ instances = <<>>
    /\ NoSignature
    /\ NoTree
    /\ NoLayout

NextNs ==
    \/ EnableNamespacing
    \/ \E value \in LayoutTrees : SetLayout(value)
    \/ \E cb \in InstanceCallbackSets : RegisterOnInstance(cb)

SpecNs == InitNs /\ [][NextNs]_vars

\* "I_-_<original id>"
Prefixed(id) == JStr(InstanceUid \o <<"_", "-", "_">> \o py_str(id))
PrefixedItem(item) == [id |-> Prefixed(item.id), property |-> item.property]
PrefixedItems(items) == [i \in DOMAIN items |-> PrefixedItem(items[i])]

RECURSIVE AllPrefixed(_, _)
\* every node with an id, reached through a list of children or a single
\* child, carries the prefixed id; everything else is as given
AllPrefixed(given, out) ==
    IF given.t = "dict"
    THEN /\ out.t = "dict" /\ DOMAIN out.kv = DOMAIN given.kv
         /\ \A i \in DOMAIN given.kv :
               /\ out.kv[i].k = given.kv[i].k
               /\ IF given.kv[i].k = S_id THEN out.kv[i].v = Prefixed(given.kv[i].v)
                  ELSE IF given.kv[i].k = S_children
                       THEN AllPrefixed(given.kv[i].v, out.kv[i].v)
                       ELSE TRUE
    ELSE IF given.t = "list"
         THEN /\ out.t = "list" /\ DOMAIN out.xs = DOMAIN given.xs
              /\ \A i \in DOMAIN given.xs : AllPrefixed(given.xs[i], out.xs[i])
         ELSE out = given

\* the table entry of a callback holds the given references, each through f
HeldAs(cb, f(_)) ==
    LET key == create_callback_id([cb.output EXCEPT !.deps =
                                      [i \in DOMAIN cb.output.deps |-> f(cb.output.deps[i])]])
    IN  /\ key \in DOMAIN callback_map
        /\ callback_map[key].inputs = [i \in DOMAIN cb.inputs |-> f(cb.inputs[i])]
        /\ callback_map[key].state = [i \in DOMAIN cb.state |-> f(cb.state[i])]

AsGiven(item) == item

\* C15 (as stated): with namespacing enabled every node of the layout that
\* has an id, at every depth, through a list of children or a single child,
\* and every output, input and state reference of every callback registered
\* on the instance, carries "I_-_<original id>".
C15_Original ==
    /\ (layout_given # Unset /\ layout_given.adjust) => AllPrefixed(layout_given.value, layout)
    /\ \A i \in DOMAIN refs_given :
          refs_given[i].adjust => HeldAs(refs_given[i].cb, PrefixedItem)

\* C15, for the references of the callbacks alone
C15_Callbacks ==
    \A i \in DOMAIN refs_given : refs_given[i].adjust => HeldAs(refs_given[i].cb, PrefixedItem)

LeftAsGiven ==
    /\ (layout_given # Unset /\ ~layout_given.adjust) => layout = layout_given.value
    /\ \A i \in DOMAIN refs_given :
          ~refs_given[i].adjust => HeldAs(refs_given[i].cb, AsGiven)

\* C20: a new instance has namespacing disabled, and while it is disabled the
\* layout setter and the registration of callbacks leave every node id and
\* every output, input and state id as given.
C20_Disabled == ~_adjust_id /\ []LeftAsGiven

C20_Witness ==
    /\ ~_adjust_id
    /\ layout_given # Unset
    /\ Depth(layout_given.value) = 2
    /\ dict_get(layout_given.value, S_id) = JStr(<<"x">>)
    /\ layout = layout_given.value
    /\ Len(refs_given) = 3
    /\ HeldAs(refs_given[1].cb, AsGiven)

(***************************************************************************)
(* Two request threads dispatching at once.  Instances formed from one     *)
(* template hold equal tables, which no dispatch writes, and every         *)
(* instance shares the module global dash.callback_context.                *)
(***************************************************************************)
InitConc ==
    /\ callback_map = RegisteredTable
    /\ backend = EmptyMap
    /\ dash_callback_context = Unset
    /\ active = Threads
    /\ IdleThreads
    /\ InstanceRegistered
    /\ NoSignature
    /\ NoNamespace
    /\ NoTree
    /\ NoLayout

NextConc ==
    \/ \E t \in Threads : ReceiveAtInstance(t)
    \/ \E t \in Threads : Begin(t)
    \/ \E t \in Threads : Lookup(t)
    \/ \E t \in Threads : BuildArgs(t)
    \/ \E t \in Threads : Invoke(t)
    \/ \E t \in Threads : Store(t)

SpecConc == InitConc /\ [][NextConc]_vars

\* C16 (as stated): the callback context observable while a handler runs is
\* the one built from that handler's own request, whatever other dispatches
\* run at the same time.
C16_Original ==
    \A t \in Threads :
        Invoked(t) => calls[t][1].seen_context = callback_context_of(body[t])

\* the table of the instance holds every registration of its template
TableComplete ==
    \A i \in DOMAIN callback_sets[instance_of] :
        LET r == callback_sets[instance_of][i]
            key == create_callback_id(r.callback_set.output)
        IN  /\ key \in DOMAIN callback_map
            /\ callback_map[key].callback.name = r.func
            /\ callback_map[key].inputs = r.callback_set.inputs
            /\ callback_map[key].state = r.callback_set.state

\* C17: the instance form_dash_instance returns holds every handler its
\* template had registered when the call began, and from then on no step of
\* a dispatch (nor a later registration on the template) changes its table.
C17_Table ==
    [][/\ instance_of' # instance_of => TableComplete'
       /\ instance_of' = instance_of => callback_map' = callback_map]_vars

C17_Witness ==
    /\ instance_of = "dw"
    /\ Cardinality(DOMAIN callback_map) = 2
    /\ Len(callback_sets["dw"]) = 3
    /\ \E t \in Threads : Invoked(t) /\ Done(t)


(***************************************************************************)
(* Malformed payloads                                                      *)
(***************************************************************************)
\* a member of an input or state entry without one of its three fields
IncompleteMember(m) ==
    "id" \notin DOMAIN m \/ "property" \notin DOMAIN m \/ "value" \notin DOMAIN m

LacksRequiredField(b) ==
    \/ "output" \notin DOMAIN b
    \/ "inputs" \notin DOMAIN b
    \/ \E i \in DOMAIN flatten(RequestEntries(b)) : IncompleteMember(flatten(RequestEntries(b))[i])

Rejected(t) == result[t].kind = "raise" /\ calls[t] = <<>> /\ log[t] = <<>>

\* C18 (as stated): a request that lacks the output field, the inputs field,
\* or the id, property or value of an input or state entry ends in an error,
\* with no handler invoked and nothing written to the backend.
C18_Original ==
    \A t \in Threads : (Done(t) /\ LacksRequiredField(body[t])) => Rejected(t)

\* the part of C18 the code keeps: a request without output, or with an entry
\* without id or property, ends in KeyError before any handler call or write
C18_Subscripted ==
    \A t \in Threads :
        (Done(t) /\ ~WellFormed(body[t])) => (Rejected(t) /\ result[t] = Raise("KeyError"))


\* an entry without value reaches the handler as None and is written to the backend
C18_Accepted ==
    \E t \in Threads :
        /\ Done(t) /\ Attached(t) /\ Get(body[t], "inputs", <<>>) = <<One(E_novalue)>>
        /\ Invoked(t) /\ calls[t][1].args = <<JNull>>
        /\ log[t][1] = WriteEv([id |-> <<"a">>, property |-> <<"v">>, value |-> JNull])
        /\ result[t].kind = "return"


(***************************************************************************)
(* Identifiers of neither shape in the tree walkers                        *)
(***************************************************************************)
S_options == <<"o", "p", "t", "i", "o", "n", "s">>

\* a copy that starts from an empty idVals whatever the target held
extract_values_fresh(data, idVals) ==
    LET own == {i \in DOMAIN data.kv : data.kv[i].k \notin {S_props, S_options, S_children, S_id}}
        keys == {data.kv[i].k : i \in own}
    IN  [k \in keys |-> dict_get(data, k)]

\* lines 555-557: the node's own properties stored over what idVals held
extract_values(data, idVals) ==
    LET own == {i \in DOMAIN data.kv : data.kv[i].k \notin {S_props, S_options, S_children, S_id}}
        keys == {data.kv[i].k : i \in own}
    IN  [k \in DOMAIN idVals \cup keys |->
            IF k \in keys THEN dict_get(data, k) ELSE idVals[k]]

RECURSIVE walk_tree_and_extract(_, _)
RECURSIVE walk_elements_and_extract(_, _)
\* lines 548-562; st is the target dict as filled so far and the exception
\* raised so far ("none" while the walk is running)
walk_tree_and_extract(data, st) ==
    IF st.exc # "none" THEN st
    ELSE IF data.t = "dict"
    THEN LET s1 == walk_tree_and_extract(dict_get(data, S_children), st)
             s2 == walk_tree_and_extract(dict_get(data, S_props), s1)
             ident == dict_get(data, S_id)
         IN  IF s2.exc # "none" \/ ident = JNull THEN s2
             ELSE IF wid2str_call(ident).kind = "raise"
             THEN [s2 EXCEPT !.exc = wid2str_call(ident).exc]
             ELSE LET idVals == extract_values(data, Get(s2.target, wid2str(ident), EmptyMap))
                  IN  IF DOMAIN idVals # {}
                      THEN [s2 EXCEPT !.target = SetItem(s2.target, wid2str(ident), idVals)]
                      ELSE s2
    ELSE IF data.t = "list"
    THEN walk_elements_and_extract(data.xs, st)
    ELSE st
\* lines 561-562: the elements of a list, first to last
walk_elements_and_extract(xs, st) ==
    IF xs = <<>> THEN st
    ELSE walk_elements_and_extract(Tail(xs), walk_tree_and_extract(Head(xs), st))

RECURSIVE replace_raises(_, _)
\* line 593: overrides.get(thisID, {}) raises TypeError on an unhashable
\* identifier (a list) at a node the walk reaches; any other identifier that is
\* not a dict is looked up as a key
replace_raises(data, ov) ==
    IF data.t = "dict"
    THEN \/ dict_get(data, S_id).t = "list"
         \/ \E i \in DOMAIN data.kv :
               /\ Get(replacements_for(data, ov), data.kv[i].k, JNull) = JNull
               /\ replace_raises(data.kv[i].v, ov)
    ELSE IF data.t = "list"
    THEN \E i \in DOMAIN data.xs : replace_raises(data.xs[i], ov)
    ELSE FALSE

\* one call of walk_tree_and_replace
walk_tree_and_replace_call(data, ov) ==
    IF replace_raises(data, ov) THEN Raise("TypeError")
    ELSE Return(walk_tree_and_replace(data, ov))

MaxShapeNodes == 2

ShapeIds == {JNull, JStr(<<"x">>), P_index0} \cup OtherIds

RECURSIVE ShapeTreesOfSize(_)
RECURSIVE ShapeForestsOfSize(_)
ShapeTreesOfSize(n) ==
    IF n = 1 THEN {Component(id, <<>>) : id \in ShapeIds}
    ELSE {Component(JNull, <<KV(S_props, c)>>) : c \in ShapeTreesOfSize(n - 1)}
         \cup {Component(id, <<KV(S_children, c)>>) : id \in ShapeIds, c \in ShapeTreesOfSize(n - 1)}
         \cup {Component(id, <<KV(S_children, JList(f))>>) :
                  id \in ShapeIds, f \in ShapeForestsOfSize(n - 1)}
ShapeForestsOfSize(m) ==
    IF m = 0 THEN {<<>>}
    ELSE UNION {{<<c>> \o f : c \in ShapeTreesOfSize(k), f \in ShapeForestsOfSize(m - k)} :
                   k \in 1..m}

ShapeTrees == UNION {ShapeTreesOfSize(n) : n \in 1..MaxShapeNodes}

ShapeOverrides ==
    {EmptyMap,
     [k \in {<<"x">>} |-> [q \in {S_value} |-> JNum(99)]],
     [k \in {<<"x">>} |-> [q \in {S_children} |-> JList(<<>>)]]}

\* lines 538-562: one call; the target dict is filled in place
Extract ==
    /\ extracted = Unset
    /\ LET st == walk_tree_and_extract(tree, [target |-> target, exc |-> "none"])
       IN  /\ target' = st.target
           /\ extracted' = IF st.exc = "none" THEN Return(JNull) ELSE Raise(st.exc)
    /\ UNCHANGED <<tree, overrides, tree_after, overrides_after, replaced,
                   dispatch_vars, reg_vars, sig_vars, layout_vars, wid_vars, ns_vars>>

\* lines 564-604: one call, with the way it ends
ReplaceCall ==
    /\ replaced = Unset
    /\ replaced' = walk_tree_and_replace_call(tree, overrides)
    /\ tree_after' = tree
    /\ overrides_after' = overrides
    /\ UNCHANGED <<tree, overrides, target, extracted,
                   dispatch_vars, reg_vars, sig_vars, layout_vars, wid_vars, ns_vars>>

InitShape ==
    /\ tree \in ShapeTrees
    /\ overrides \in ShapeOverrides
    /\ tree_after = tree
    /\ overrides_after = overrides
    /\ replaced = Unset
    /\ target = EmptyMap
    /\ extracted = Unset
    /\ wid_a \in ShapeIds \ {JNull}
    /\ wid_b \in ShapeIds \ {JNull}
    /\ str_a = Unset
    /\ str_b = Unset
    /\ _replacements = EmptyMap
    /\ initial_arguments = None
    /\ response_data = Unset
    /\ NoDispatch
    /\ NoSignature
    /\ NoNamespace

NextShape ==
    \/ Canonicalize
    \/ Extract
    \/ ReplaceCall

SpecShape == InitShape /\ [][NextShape]_vars

\* an identifier that is neither a string nor a key/value mapping
OtherShaped(id) == id # JNull /\ ~Shaped(id)

RECURSIVE HasOtherShaped(_)
\* some node under data, through children and props, has such an identifier
HasOtherShaped(data) ==
    IF data.t = "dict"
    THEN \/ OtherShaped(dict_get(data, S_id))
         \/ HasOtherShaped(dict_get(data, S_children))
         \/ HasOtherShaped(dict_get(data, S_props))
    ELSE IF data.t = "list"
    THEN \E i \in DOMAIN data.xs : HasOtherShaped(data.xs[i])
    ELSE FALSE

RECURSIVE MeetsOtherShaped(_, _)
\* the replacing walk comes to a node with such an identifier: the node is
\* not inside a value that an override substitutes
MeetsOtherShaped(data, ov) ==
    IF data.t = "dict"
    THEN \/ OtherShaped(dict_get(data, S_id))
         \/ \E i \in DOMAIN data.kv :
               /\ data.kv[i].k # S_id
               /\ Get(replacements_for(data, ov), data.kv[i].k, JNull) = JNull
               /\ MeetsOtherShaped(data.kv[i].v, ov)
    ELSE IF data.t = "list"
    THEN \E i \in DOMAIN data.xs : MeetsOtherShaped(data.xs[i], ov)
    ELSE FALSE

\* wid2str raises on an identifier of neither shape
C19_Canonicalization ==
    /\ (str_a # Unset /\ OtherShaped(wid_a)) => str_a.kind = "raise"
    /\ (str_b # Unset /\ OtherShaped(wid_b)) => str_b.kind = "raise"

\* walk_tree_and_extract raises when a node of its tree has such an identifier
C19_Extraction ==
    (extracted # Unset /\ HasOtherShaped(tree)) => extracted.kind = "raise"

\* walk_tree_and_replace raises when it comes to a node with such an identifier
C19_Replacement ==
    (replaced # Unset /\ MeetsOtherShaped(tree, overrides)) => replaced.kind = "raise"

\* C19 (as stated): an identifier that is neither a string nor a key/value
\* mapping makes wid2str, walk_tree_and_extract and walk_tree_and_replace end
\* in an error; none of the three accepts it.
C19_Original ==
    C19_Canonicalization /\ C19_Extraction /\ C19_Replacement

\* the replacing walk returns a tree whose root carries a number as identifier
C19_Accepted ==
    /\ replaced # Unset /\ replaced.kind = "return"
    /\ dict_get(tree, S_id) = JNum(5)
    /\ replaced.val = tree
    /\ extracted # Unset /\ extracted.kind = "raise"


(***************************************************************************)
(* Order of the backend writes around the handler call                     *)
(***************************************************************************)
\* the members of the request's entries, inputs then state, as write events
EntryWrites(b) ==
    LET ms == flatten(RequestEntries(b))
    IN  [i \in 1..Len(ms) |->
            WriteEv([id |-> ms[i].id, property |-> ms[i].property,
                     value |-> Get(ms[i], "value", JNull)])]

InvokePositions(t) == {i \in DOMAIN log[t] : log[t][i].ev = "invoke"}

\* C21: with a backend attached, every member of every input and state entry
\* is written with its identifier, property and value before the handler is
\* invoked (the backend holds them when the call is made), and every write of
\* an output comes after the handler's return.
C21_WritesAroundCall ==
    \A t \in Threads :
        (Attached(t) /\ pc[t] \in {"invoke", "store", "done"} /\ WellFormed(body[t]))
        => /\ pc[t] = "invoke" =>
                /\ log[t] = EntryWrites(body[t])
                /\ \A i \in DOMAIN log[t] :
                      /\ <<log[t][i].id, log[t][i].property>> \in DOMAIN backend
                      /\ \E j \in DOMAIN log[t] :
                            /\ log[t][j].id = log[t][i].id
                            /\ log[t][j].property = log[t][i].property
                            /\ backend[<<log[t][i].id, log[t][i].property>>] = log[t][j].value
           /\ \A n \in InvokePositions(t) :
                /\ SubSeq(log[t], 1, n - 1) = EntryWrites(body[t])
                /\ \A i \in DOMAIN log[t] : i > n => log[t][i].ev = "write"
           /\ InvokePositions(t) = {} =>
                \E k \in 0..Len(log[t]) : log[t] = SubSeq(EntryWrites(body[t]), 1, k)

\* a grouped entry and a plain one were recorded, the handler ran, an output was stored
C21_Witness ==
    \E t \in Threads :
        /\ Done(t) /\ Attached(t) /\ Invoked(t)
        /\ Len(EntryWrites(body[t])) = 3
        /\ \E n \in InvokePositions(t) : n = 4 /\ Len(log[t]) > n


(***************************************************************************)
(* The positional arguments of the handler call                            *)
(***************************************************************************)
ValueOf(m) == IF "value" \in DOMAIN m THEN m.value ELSE JNull

\* C22: the handler's positional arguments are one per entry of the inputs
\* list followed by one per entry of the state list, in order; a plain entry
\* gives its value, a grouped entry the list of its members' values in member
\* order.
C22_Positional ==
    \A t \in Threads :
        Invoked(t) =>
            LET ins == Get(body[t], "inputs", <<>>)
                sts == Get(body[t], "state", <<>>)
                a == calls[t][1].args
            IN  /\ Len(a) = Len(ins) + Len(sts)
                /\ \A i \in DOMAIN a :
                      LET c == IF i <= Len(ins) THEN ins[i] ELSE sts[i - Len(ins)]
                      IN  IF c.kind = "group"
                          THEN /\ a[i].t = "list"
                               /\ Len(a[i].xs) = Len(c.members)
                               /\ \A j \in DOMAIN c.members : a[i].xs[j] = ValueOf(c.members[j])
                          ELSE a[i] = ValueOf(c.d)

\* a call with a plain input, a grouped input and a state entry
C22_Witness ==
    \E t \in Threads :
        /\ Invoked(t)
        /\ Get(body[t], "inputs", <<>>) = <<One(E_a), Group(<<E_b, E_a>>)>>
        /\ Len(Get(body[t], "state", <<>>)) = 1
        /\ calls[t][1].args[2] = JList(<<JNum(6), JNum(5)>>)


(***************************************************************************)
(* The same override map at every depth                                    *)
(***************************************************************************)
\* the override value for property q of node data, or absent
OverrideFor(data, q, ov) ==
    LET id == dict_get(data, S_id)
        key == IF id = JNull THEN <<>> ELSE wid2str(id)
    IN  IF id # JNull /\ key \in DOMAIN ov /\ q \in DOMAIN ov[key]
        THEN [given |-> TRUE, v |-> ov[key][q]]
        ELSE [given |-> FALSE]

RECURSIVE SameMapAt(_, _, _)
\* out is data with, at every depth under properties that were not
\* substituted, the matching properties of each node replaced by the override
\* value exactly as given, and everything else kept
SameMapAt(data, out, ov) ==
    IF data.t = "dict"
    THEN /\ out.t = "dict" /\ Len(out.kv) = Len(data.kv)
         /\ \A i \in DOMAIN data.kv :
               /\ out.kv[i].k = data.kv[i].k
               /\ IF OverrideFor(data, data.kv[i].k, ov).given
                  THEN out.kv[i].v = OverrideFor(data, data.kv[i].k, ov).v
                  ELSE SameMapAt(data.kv[i].v, out.kv[i].v, ov)
    ELSE IF data.t = "list"
         THEN /\ out.t = "list" /\ Len(out.xs) = Len(data.xs)
              /\ \A i \in DOMAIN data.xs : SameMapAt(data.xs[i], out.xs[i], ov)
         ELSE out = data

\* C23 (as stated): the same override map is applied at every depth: a node
\* with an id nested under a property that was not substituted gets its own
\* matching properties replaced, and a value taken from the override map is
\* returned exactly as given, nothing inside it being overridden.
C23_Original == replaced # Unset => SameMapAt(tree, replaced, overrides)

\* C23, without null: the same when no override value is null.
C23_NonNull ==
    (replaced # Unset /\ \A k \in DOMAIN overrides : \A q \in DOMAIN overrides[k] :
                             overrides[k][q] # JNull)
    => SameMapAt(tree, replaced, overrides)

\* a nested node is replaced, and a substituted subtree keeps a value the
\* override map would have replaced
C23_Nested ==
    /\ replaced # Unset
    /\ dict_get(tree, S_id) = JStr(<<"x">>)
    /\ <<"x">> \in DOMAIN overrides
    /\ S_children \in DOMAIN overrides[<<"x">>]
    /\ S_value \in DOMAIN overrides[<<"x">>]
    /\ dict_get(tree, S_children) # JNull
    /\ dict_get(dict_get(replaced, S_children), S_value) = JNum(1)
    /\ dict_get(replaced, S_value) = JNum(99)


(***************************************************************************)
(* WrappedDash.walk_tree_and_extract on trees with repeated identifiers    *)
(***************************************************************************)
MaxExtractNodes == 2

ExtractIds == {JNull, JStr(<<"x">>), P_index0, JNum(5)}

\* the properties a node has besides its id and what it nests
OwnProperties ==
    {<<>>,
     <<KV(S_value, JNum(1))>>,
     <<KV(S_value, JNum(2)), KV(S_label, JNum(3)), KV(S_options, JNum(4))>>}

Node(id, own, nested) ==
    JDict((IF id = JNull THEN <<>> ELSE <<KV(S_id, id)>>) \o own \o nested)

RECURSIVE ExtractTreesOfSize(_)
RECURSIVE ExtractForestsOfSize(_)
ExtractTreesOfSize(n) ==
    IF n = 1 THEN {Node(id, own, <<>>) : id \in ExtractIds, own \in OwnProperties}
    ELSE LET tops == ExtractIds \X {<<>>, <<KV(S_value, JNum(1))>>}
         IN  {Node(p[1], p[2], <<KV(S_props, c)>>) : p \in tops, c \in ExtractTreesOfSize(n - 1)}
             \cup {Node(p[1], p[2], <<KV(S_children, c)>>) :
                      p \in tops, c \in ExtractTreesOfSize(n - 1)}
             \cup {Node(p[1], p[2], <<KV(S_children, JList(f))>>) :
                      p \in tops, f \in ExtractForestsOfSize(n - 1)}
             \cup UNION {{Node(p[1], p[2], <<KV(S_props, c), KV(S_children, d)>>) :
                             p \in tops, c \in ExtractTreesOfSize(k),
                             d \in ExtractTreesOfSize(n - 1 - k)} : k \in 1..(n - 2)}
ExtractForestsOfSize(m) ==
    IF m = 0 THEN {<<>>}
    ELSE UNION {{<<c>> \o f : c \in ExtractTreesOfSize(k), f \in ExtractForestsOfSize(m - k)} :
                   k \in 1..m}

ExtractTrees == UNION {ExtractTreesOfSize(n) : n \in 1..MaxExtractNodes}

\* what the target dict holds before the call
ExtractTargets ==
    {EmptyMap,
     [k \in {<<"x">>} |-> [q \in {S_value, S_type} |-> JNum(7)]],
     [k \in {K_index0, <<"y">>} |-> [q \in {S_value} |-> JNum(7)]]}

InitExtract ==
    /\ tree \in ExtractTrees
    /\ target \in ExtractTargets
    /\ overrides = EmptyMap
    /\ tree_after = tree
    /\ overrides_after = EmptyMap
    /\ replaced = Unset
    /\ extracted = Unset
    /\ NoDispatch
    /\ NoSignature
    /\ NoNamespace
    /\ NoLayout

NextExtract == Extract

SpecExtract == InitExtract /\ [][NextExtract]_vars

RECURSIVE Visited(_)
RECURSIVE VisitedEach(_)
\* the nodes carrying an id that the walk comes to, in the order it comes to
\* them: what a node nests under children, then under props, then the node
Visited(data) ==
    IF data.t = "dict"
    THEN Visited(dict_get(data, S_children)) \o Visited(dict_get(data, S_props))
         \o (IF dict_get(data, S_id) # JNull THEN <<data>> ELSE <<>>)
    ELSE IF data.t = "list" THEN VisitedEach(data.xs) ELSE <<>>
VisitedEach(xs) == IF xs = <<>> THEN <<>> ELSE Visited(Head(xs)) \o VisitedEach(Tail(xs))

OwnKeys(node) ==
    {node.kv[i].k : i \in DOMAIN node.kv} \ {S_props, S_options, S_children, S_id}

CanonicalId(node) == wid2str(dict_get(node, S_id))

\* after is before with the properties of the visited nodes merged in
MergedInto(before, after, data) ==
    LET V == Visited(data)
        ids == {CanonicalId(V[i]) : i \in DOMAIN V}
        At(k, q) == {i \in DOMAIN V : CanonicalId(V[i]) = k /\ q \in OwnKeys(V[i])}
        Last(S) == CHOOSE i \in S : \A j \in S : j <= i
    IN  /\ DOMAIN after \subseteq DOMAIN before \cup ids
        /\ \A k \in DOMAIN before \cup ids :
              LET prior == IF k \in DOMAIN before THEN before[k] ELSE EmptyMap
                  qs == DOMAIN prior
                        \cup UNION {OwnKeys(V[i]) : i \in {j \in DOMAIN V : CanonicalId(V[j]) = k}}
              IN  IF k \notin DOMAIN before /\ qs = {}
                  THEN k \notin DOMAIN after
                  ELSE /\ k \in DOMAIN after
                       /\ DOMAIN after[k] = qs
                       /\ \A q \in qs :
                             after[k][q] = IF At(k, q) # {}
                                           THEN dict_get(V[Last(At(k, q))], q)
                                           ELSE prior[q]

\* C24: a call of walk_tree_and_extract that returns leaves in target, under
\* the canonical id of every node with an id it came to, every property of the
\* node except props, options, children and id, merged into what target held
\* (per property the node visited last wins, other properties are kept); an
\* id with no such property and no prior entry gets no entry; the tree is
\* left as it was.
C24_Extracted ==
    [][(extracted = Unset /\ extracted' # Unset /\ extracted'.kind = "return")
          => (MergedInto(target, target', tree) /\ tree' = tree /\ tree' = tree_after')]_vars

\* a prior entry was kept, a child's value was replaced by its parent's, and a
\* pattern id got its entry under its canonical text
C24_Witness ==
    /\ extracted # Unset /\ extracted.kind = "return"
    /\ Len(Visited(tree)) = 2
    /\ <<"x">> \in DOMAIN target
    /\ DOMAIN target[<<"x">>] = {S_value, S_type, S_label}
    /\ target[<<"x">>][S_value] = JNum(1)
    /\ target[<<"x">>][S_type] = JNum(7)
    /\ dict_get(Visited(tree)[1], S_value) = JNum(2)


(***************************************************************************)
(* The policy kept for each registered handler                             *)
(***************************************************************************)
\* where a registration's policy is kept: on the function object
\* (dash_wrapper.py) or under the function's __qualname__ (django_dash.py)
Slot(tpl, f) == IF tpl = "dw" THEN <<"attribute", f>> ELSE <<"qualname", qualname(f)>>

StoredPolicy(tpl, f) ==
    IF tpl = "dw" THEN func_expanded[f] ELSE Get(expanded_parameters, qualname(f), NoAttribute)

\* C25 (as stated): after any sequence of registrations the policy stored for
\* each registered handler is the one computed at its own registration;
\* a later registration never changes it.
C25_Original ==
    \A i \in DOMAIN analyses :
        StoredPolicy(analyses[i].template, analyses[i].func) = analyses[i].expanded

\* what the code keeps: the policy of the last registration of each slot
C25_LastPerSlot ==
    \A i \in DOMAIN analyses :
        (\A j \in DOMAIN analyses :
            j > i => Slot(analyses[j].template, analyses[j].func)
                        # Slot(analyses[i].template, analyses[i].func))
        => StoredPolicy(analyses[i].template, analyses[i].func) = analyses[i].expanded


(***************************************************************************)
(* Several instances formed from one template.  The instance is handed the *)
(* template's own layout components and its own Output/Input/State items.  *)
(***************************************************************************)
MaxInstances == 2

\* the ndid argument of form_dash_instance
InstanceUids == {<<"i", "1">>, <<"i", "2">>}

\* lines 674-690 on the instance whose _uid is uid
fix_id_of(uid, adjust, name) ==
    IF ~adjust THEN name
    ELSE JStr(uid \o <<"_", "-", "_">> \o py_str(name))

RECURSIVE fix_component_id_of(_, _)
\* lines 664-672: setattr(component, "id", ...) on the component it is handed
fix_component_id_of(uid, component) ==
    IF component.t # "dict" THEN component
    ELSE LET component_id == dict_get(component, S_id)
             named == IF component_id # JNull
                      THEN set_attr(component, S_id, fix_id_of(uid, TRUE, component_id))
                      ELSE component
             children == dict_get(named, S_children)
         IN  IF children.t = "list"
             THEN set_attr(named, S_children,
                           JList([i \in DOMAIN children.xs |->
                                     fix_component_id_of(uid, children.xs[i])]))
             ELSE named

\* lines 692-695: item.component_id = self._fix_id(item.component_id)
fix_callback_item_of(uid, adjust, item) == [item EXCEPT !.id = fix_id_of(uid, adjust, item.id)]

\* lines 697-709: the items of one callback set once WrappedDash.callback has
\* gone through them
fix_callback_set(uid, adjust, cb) ==
    [cb EXCEPT !.output = [cb.output EXCEPT !.deps =
                              [i \in DOMAIN cb.output.deps |->
                                  fix_callback_item_of(uid, adjust, cb.output.deps[i])]],
               !.inputs = [i \in DOMAIN cb.inputs |-> fix_callback_item_of(uid, adjust, cb.inputs[i])],
               !.state = [i \in DOMAIN cb.state |-> fix_callback_item_of(uid, adjust, cb.state[i])]]

\* the callbacks declared on the template
TemplateCallbackSets ==
    <<Registration(CallbackSet(O_oc, <<D_a>>, <<>>), "h_none"),
      Registration(CallbackSet(Multi(<<Dep(JStr(<<"p">>), <<"v">>), Dep(JStr(<<"x">>), <<"value">>)>>),
                               <<D_a, D_b>>, <<D_s>>), "h_all")>>

\* form_dash_instance(ndid=ndid): rd.layout = self.layout runs the layout
\* setter on the template's layout, and rd.callback(**cb)(func) runs
\* _fix_callback_item on the items the template stores; _adjust_id is the
\* switch as the instance has it at lines 662 and 688
FormNamespaced(ndid) ==
    /\ Len(instances) < MaxInstances
    /\ LET value == IF _adjust_id THEN fix_component_id_of(ndid, template_layout)
                    ELSE template_layout
           sets == [i \in DOMAIN callback_sets["dw"] |->
                       [callback_sets["dw"][i] EXCEPT
                           !.callback_set = fix_callback_set(ndid, _adjust_id, @)]]
       IN  /\ template_layout' = value
           /\ callback_sets' = [callback_sets EXCEPT !["dw"] = sets]
           /\ instances' = Append(instances,
                                  [uid |-> ndid, adjust |-> _adjust_id, layout |-> value,
                                   refs |-> [i \in DOMAIN sets |-> sets[i].callback_set]])
    /\ UNCHANGED <<_adjust_id, layout, layout_given, refs_given, template_given,
                   func_expanded, expanded_parameters, analyses, instance_of,
                   registry_apps, constructed,
                   dispatch_vars, sig_vars, walk_vars, layout_vars, wid_vars>>

InitForm ==
    /\ callback_map = EmptyMap
    /\ backend = EmptyMap
    /\ dash_callback_context = Unset
    /\ active = {}
    /\ IdleThreads
    /\ callback_sets = [tpl \in Templates |-> IF tpl = "dw" THEN TemplateCallbackSets ELSE <<>>]
    /\ func_expanded = [f \in FuncObjects |-> NoAttribute]
    /\ expanded_parameters = EmptyMap
    /\ analyses = <<>>
    /\ instance_of = "none"
    /\ registry_apps = EmptyMap
    /\ constructed = <<>>
    /\ _adjust_id = FALSE
    /\ layout = Unset
    /\ layout_given = Unset
    /\ refs_given = <<>>
    /\ template_layout \in LayoutTrees
    /\ template_given = [layout |-> template_layout, sets |-> TemplateCallbackSets]
    /\ instances = <<>>
    /\ NoSignature
    /\ NoTree
    /\ NoLayout

NextForm ==
    \/ EnableNamespacing
    \/ \E ndid \in InstanceUids : FormNamespaced(ndid)

SpecForm == InitForm /\ [][NextForm]_vars

\* "<uid>_-_<original id>"
PrefixedBy(uid, id) == JStr(uid \o <<"_", "-", "_">> \o py_str(id))

RECURSIVE OncePrefixed(_, _, _)
\* every node of out with an id carries the given node's id prefixed once
\* with uid; everything else is as given
OncePrefixed(uid, given, out) ==
    IF given.t = "dict"
    THEN /\ out.t = "dict" /\ Len(out.kv) = Len(given.kv)
         /\ \A i \in DOMAIN given.kv :
               /\ out.kv[i].k = given.kv[i].k
               /\ IF given.kv[i].k = S_id THEN out.kv[i].v = PrefixedBy(uid, given.kv[i].v)
                  ELSE IF given.kv[i].k = S_children
                       THEN OncePrefixed(uid, given.kv[i].v, out.kv[i].v)
                       ELSE out.kv[i].v = given.kv[i].v
    ELSE IF given.t = "list"
         THEN /\ out.t = "list" /\ Len(out.xs) = Len(given.xs)
              /\ \A i \in DOMAIN given.xs : OncePrefixed(uid, given.xs[i], out.xs[i])
         ELSE out = given

RefsOncePrefixed(uid, given, refs) ==
    LET P(item) == [item EXCEPT !.id = PrefixedBy(uid, item.id)]
    IN  /\ DOMAIN refs = DOMAIN given
        /\ \A j \in DOMAIN given :
              LET g == given[j].callback_set
              IN  /\ refs[j].output.deps = [i \in DOMAIN g.output.deps |-> P(g.output.deps[i])]
                  /\ refs[j].inputs = [i \in DOMAIN g.inputs |-> P(g.inputs[i])]
                  /\ refs[j].state = [i \in DOMAIN g.state |-> P(g.state[i])]

C26_FirstFormed ==
    /\ ~_adjust_id => (template_layout = template_given.layout
                       /\ callback_sets["dw"] = template_given.sets)
    /\ \A i \in DOMAIN instances :
          (instances[i].adjust /\ \A j \in 1..(i - 1) : ~instances[j].adjust)
          => RefsOncePrefixed(instances[i].uid, template_given.sets, instances[i].refs)

\* the second instance carries the first one's prefix inside its own
C26_Twice ==
    /\ Len(instances) = 2
    /\ instances[1].uid = <<"i", "1">> /\ instances[2].uid = <<"i", "2">>
    /\ instances[2].refs[1].inputs[1].id
          = JStr(<<"i", "2", "_", "-", "_", "i", "1", "_", "-", "_", "a">>)


(***************************************************************************)
(* The short circuit on too few arguments                                  *)
(***************************************************************************)
\* the value of the last write of the log to the entry of write i
LastWritten(t, i) ==
    LET same == {j \in DOMAIN log[t] : /\ log[t][j].ev = "write"
                                       /\ log[t][j].id = log[t][i].id
                                       /\ log[t][j].property = log[t][i].property}
    IN  log[t][CHOOSE j \in same : \A k \in same : k <= j].value

\* C27: when a dispatch with a backend attached returns the sentinel, every
\* member of every input and state entry has been written to the backend, and
\* nothing else happened: no handler call, no write of an output.
C27_SentinelAfterWrites ==
    \A t \in Threads :
        (Done(t) /\ Attached(t) /\ result[t] = Return(EDGECASEEXIT))
        => /\ log[t] = EntryWrites(body[t])
           /\ calls[t] = <<>>
           /\ \A i \in DOMAIN log[t] :
                 /\ <<log[t][i].id, log[t][i].property>> \in DOMAIN backend
                 /\ backend[<<log[t][i].id, log[t][i].property>>] = LastWritten(t, i)

\* the sentinel after the two members of a grouped input were written
C27_Witness ==
    \E t \in Threads :
        /\ Done(t) /\ Attached(t) /\ result[t] = Return(EDGECASEEXIT)
        /\ Get(body[t], "inputs", <<>>) = <<Group(<<E_b, E_a>>)>>
        /\ Len(log[t]) = 2
        /\ backend[<<<<"b">>, <<"v">>>>] = JNum(6)


(***************************************************************************)
(* The shape of the tree walk_tree_and_replace returns                     *)
(***************************************************************************)
RECURSIVE ShapeKept(_, _, _)
\* outside the values the override map gives: a dict of out has the keys of
\* the dict of data, in the same order, and a list has the same length
ShapeKept(data, out, ov) ==
    IF data.t = "dict"
    THEN /\ out.t = "dict"
         /\ [i \in DOMAIN out.kv |-> out.kv[i].k] = [i \in DOMAIN data.kv |-> data.kv[i].k]
         /\ \A i \in DOMAIN data.kv :
               OverrideFor(data, data.kv[i].k, ov).given
               \/ ShapeKept(data.kv[i].v, out.kv[i].v, ov)
    ELSE IF data.t = "list"
         THEN /\ out.t = "list" /\ Len(out.xs) = Len(data.xs)
              /\ \A i \in DOMAIN data.xs : ShapeKept(data.xs[i], out.xs[i], ov)
         ELSE out.t \notin {"dict", "list"}

\* C28: walk_tree_and_replace keeps the shape of the tree outside substituted
\* values: same keys in the same order in every dict, same length of every
\* list; an override for a property the matching node does not have adds no
\* key.
C28_ShapeKept == replaced # Unset => ShapeKept(tree, replaced, overrides)

\* a node x without label, nested in a list, met an override for its label
C28_Witness ==
    /\ replaced # Unset
    /\ <<"x">> \in DOMAIN overrides /\ DOMAIN overrides[<<"x">>] = {S_label}
    /\ dict_get(tree, S_children).t = "list"
    /\ Len(dict_get(tree, S_children).xs) = 2
    /\ dict_get(dict_get(tree, S_children).xs[1], S_id) = JStr(<<"x">>)
    /\ replaced = tree


(***************************************************************************)
(* DjangoDash.__init__ and the registry of templates                       *)
(***************************************************************************)
MaxTemplates == 4

\* the name argument: None, or a str
TemplateNames == {JNull, JStr(<<"a">>), JStr(<<"b">>), JStr(<<"d", "j", "d", "a", "s", "h", "_", "1">>)}

\* f"djdash_{n}"
djdash(n) == <<"d", "j", "d", "a", "s", "h", "_">> \o decimal(n)

\* a naming that stores the generated identifier where the named branch stores the name
attributes_named_uniformly(name, apps) ==
    IF name = JNull
    THEN [_uid |-> djdash(Cardinality(DOMAIN apps) + 1)]
    ELSE [_uid |-> name.s]

\* django_dash.py lines 68-71 (dash_wrapper.py lines 106-109): the attributes
\* the constructor has set on self when it comes to the registry
attributes(name, apps) ==
    IF name = JNull
    THEN [uid |-> djdash(Cardinality(DOMAIN apps) + 1)]
    ELSE [_uid |-> name.s]

\* DjangoDash(name): line 79 reads self._uid, which raises AttributeError when
\* the attribute was never set
Construct(name) ==
    /\ Len(constructed) < MaxTemplates
    /\ LET self == attributes(name, registry_apps)
           k == Cardinality(DOMAIN registry_apps)
       IN  IF "_uid" \in DOMAIN self
           THEN /\ registry_apps' = SetItem(registry_apps, self._uid, [template |-> Len(constructed) + 1])
                /\ constructed' = Append(constructed,
                                         [name |-> name, k |-> k, result |-> Return(JStr(self._uid))])
           ELSE /\ constructed' = Append(constructed,
                                         [name |-> name, k |-> k, result |-> Raise("AttributeError")])
                /\ UNCHANGED registry_apps
    /\ UNCHANGED <<callback_sets, func_expanded, expanded_parameters, analyses, instance_of,
                   dispatch_vars, sig_vars, walk_vars, layout_vars, wid_vars, ns_vars>>

InitTemplates ==
    /\ registry_apps = EmptyMap
    /\ constructed = <<>>
    /\ callback_sets = [tpl \in Templates |-> <<>>]
    /\ func_expanded = [f \in FuncObjects |-> NoAttribute]
    /\ expanded_parameters = EmptyMap
    /\ analyses = <<>>
    /\ instance_of = "none"
    /\ callback_map = EmptyMap
    /\ backend = EmptyMap
    /\ dash_callback_context = Unset
    /\ active = {}
    /\ IdleThreads
    /\ NoSignature
    /\ NoNamespace
    /\ NoTree
    /\ NoLayout

NextTemplates == \E name \in TemplateNames : Construct(name)

SpecTemplates == InitTemplates /\ [][NextTemplates]_vars

\* the template made by call i is in the registry under identifier id, unless
\* a later call registered another template there
RegisteredUnder(i, id) ==
    /\ constructed[i].result = Return(JStr(id))
    /\ id \in DOMAIN registry_apps
    /\ registry_apps[id].template >= i

\* C29 (as stated): DjangoDash() without a name succeeds, takes the identifier
\* "djdash_<k+1>", k being the number of templates in the registry at that
\* moment, and is registered under it.
C29_Original ==
    \A i \in DOMAIN constructed :
        constructed[i].name = JNull => RegisteredUnder(i, djdash(constructed[i].k + 1))

\* a named template is registered under its name
C29_Named ==
    \A i \in DOMAIN constructed :
        constructed[i].name # JNull => RegisteredUnder(i, constructed[i].name.s)

====
